---- MODULE Spec2Model ----
(***************************************************************************)
(* Model of the readiness scorer (src/backend/app.py) and of the roadmap   *)
(* builder's priority trimming and time estimation                         *)
(* (src/agents/career_pathfinder_optimized.py).                            *)
(*                                                                         *)
(* Representation.                                                         *)
(*  - A Python str that the code inspects character by character (a skill  *)
(*    name) is a sequence of one-character strings, so that lower(),       *)
(*    replace() and the substring test are computed, not assumed.          *)
(*  - A Python float score is an exact fraction [num, den] (den > 0).      *)
(*    The category scores are single correctly rounded divisions and every *)
(*    IEEE operation used on them is monotone, so order between scores is  *)
(*    the order between the fractions; the weighted sum itself can differ  *)
(*    from the exact value by an ulp.                                      *)
(*  - int(n * 0.6), int(n * 1.1), int(n * 0.85) and math.ceil(a / b) on    *)
(*    non-negative integers are the integer expressions used below (the    *)
(*    doubles 0.6 and 0.85 round back to the exact product whenever it is  *)
(*    an integer and 1.1 lies above 11/10).                                *)
(***************************************************************************)
EXTENDS Integers, Sequences, FiniteSets, TLC

VARIABLES
    request,        \* the JSON body of the HTTP request being served
    response,       \* the handler's JSON response (None before it ran)
    call,           \* arguments of the library function under call
    result,         \* its return value (None before it returned)
    profiler,       \* the module-level PerformanceProfiler instance
    JOB_ROLES_DATA, \* the curated role -> required skills table loaded at import
    COURSES_DATA,   \* the curated skill -> courses table loaded at import
    state,          \* the MyState dict the pipeline stages share
    pc,             \* the position of the pipeline run
    log,            \* the stage and generation-service events of the run, in order
    uploads,        \* the files of UPLOADS_DIR: file name -> content
    clock,          \* int(time.time()) of the server's clock
    peer            \* the position of a call that another request thread makes

\* the module-level data, which no operation writes
curated == <<JOB_ROLES_DATA, COURSES_DATA>>

\* the pipeline run
run == <<state, pc, log>>

\* the server's directory of uploads, its clock and its other request thread
host == <<uploads, clock, peer>>

vars == <<request, response, call, result, profiler, curated, run, host>>

\* Python's None (also: a key absent from a dict)
None == [none |-> TRUE]

(***************************************************************************)
(* Python str operations on character sequences                            *)
(***************************************************************************)
UpperChars == <<"A", "B", "C", "D", "E", "F", "G", "H", "I", "J", "K", "L", "M",
                "N", "O", "P", "Q", "R", "S", "T", "U", "V", "W", "X", "Y", "Z">>

LowerChars == <<"a", "b", "c", "d", "e", "f", "g", "h", "i", "j", "k", "l", "m",
                "n", "o", "p", "q", "r", "s", "t", "u", "v", "w", "x", "y", "z">>

\* one character of str.lower()
lower_char(c) ==
    IF \E i \in DOMAIN UpperChars : UpperChars[i] = c
    THEN LowerChars[CHOOSE i \in DOMAIN UpperChars : UpperChars[i] = c]
    ELSE c

\* s.lower()
str_lower(s) == [i \in DOMAIN s |-> lower_char(s[i])]

\* s.replace(ch, '') for a one-character ch
str_remove(s, ch) == SelectSeq(s, LAMBDA c : c # ch)

\* a plausible slip: the replace('_', '') is left out
normalize_skill_keep_underscore(s) == str_remove(str_lower(s), "-")

\* skill.lower().replace('-', '').replace('_', '')
normalize_skill(s) == str_remove(str_remove(str_lower(s), "-"), "_")

\* x in xs, for a Python list xs
list_contains(xs, x) == \E i \in DOMAIN xs : xs[i] = x

\* xs[:n] for n >= 0
list_prefix(xs, n) == SubSeq(xs, 1, IF n < Len(xs) THEN n ELSE Len(xs))

Range(xs) == {xs[i] : i \in DOMAIN xs}

Min(a, b) == IF a < b THEN a ELSE b

Max(a, b) == IF a > b THEN a ELSE b

(***************************************************************************)
(* Skill names                                                             *)
(***************************************************************************)
s_git == <<"g", "i", "t">>
s_Git == <<"G", "i", "t">>
s_ci_cd == <<"c", "i", "-", "c", "d">>
s_CI_CD == <<"C", "I", "_", "C", "D">>
s_sql == <<"s", "q", "l">>
s_linux == <<"l", "i", "n", "u", "x">>
s_docker == <<"d", "o", "c", "k", "e", "r">>
s_kubernetes == <<"k", "u", "b", "e", "r", "n", "e", "t", "e", "s">>
s_jenkins == <<"j", "e", "n", "k", "i", "n", "s">>
s_terraform == <<"t", "e", "r", "r", "a", "f", "o", "r", "m">>
s_aws == <<"a", "w", "s">>
s_bash == <<"b", "a", "s", "h">>
s_monitoring == <<"m", "o", "n", "i", "t", "o", "r", "i", "n", "g">>
s_ansible == <<"a", "n", "s", "i", "b", "l", "e">>
s_python == <<"p", "y", "t", "h", "o", "n">>
s_azure == <<"a", "z", "u", "r", "e">>
s_collaboration == <<"c", "o", "l", "l", "a", "b", "o", "r", "a", "t", "i", "o", "n">>
s_excel == <<"e", "x", "c", "e", "l">>
s_java == <<"j", "a", "v", "a">>
s_react == <<"r", "e", "a", "c", "t">>
s_figma == <<"f", "i", "g", "m", "a">>
s_jira == <<"j", "i", "r", "a">>
s_html == <<"h", "t", "m", "l">>
s_css == <<"c", "s", "s">>
s_tableau == <<"t", "a", "b", "l", "e", "a", "u">>
s_redis == <<"r", "e", "d", "i", "s">>
s_problem_solving == <<"p", "r", "o", "b", "l", "e", "m", "-", "s", "o", "l", "v", "i", "n", "g">>

(***************************************************************************)
(* Readiness scorer: src/backend/app.py                                    *)
(***************************************************************************)
\* a SkillRequirement of a role profile; weight is kept in tenths
Req(skill, level, weight) == [skill |-> skill, required_level |-> level, weight |-> weight]

EmptyProfile ==
    [core_technical_skills |-> <<>>, other_technical_skills |-> <<>>, soft_skills |-> <<>>]

\* the "devops-engineer" row of role_profiles
DevopsProfile ==
    [core_technical_skills |->
        << Req(s_linux, 3, 6), Req(s_docker, 3, 6), Req(s_kubernetes, 2, 6),
           Req(s_git, 3, 6), Req(s_ci_cd, 3, 6), Req(s_jenkins, 2, 6),
           Req(s_terraform, 2, 6), Req(s_aws, 2, 6), Req(s_bash, 2, 6),
           Req(s_monitoring, 2, 6) >>,
     other_technical_skills |->
        << Req(s_ansible, 2, 3), Req(s_python, 2, 3), Req(s_azure, 2, 3) >>,
     soft_skills |->
        << Req(s_collaboration, 2, 1), Req(s_problem_solving, 2, 1) >>]

\* role_profiles.get(target_role, {three empty lists})
get_role_profile(target_role) ==
    IF target_role = "devops-engineer" THEN DevopsProfile ELSE EmptyProfile

\* a float score as an exact fraction
Frac(n, d) == [num |-> n, den |-> d]

FracLeq(a, b) == a.num * b.den <= b.num * a.den

FracEq(a, b) == a.num * b.den = b.num * a.den

\* present_count of calculate_skill_category_score: the loop over required_skills
present_count(user_skills, required_skills) ==
    LET user_skills_lower == [i \in DOMAIN user_skills |-> normalize_skill(user_skills[i])]
    IN  Cardinality({i \in DOMAIN required_skills :
            list_contains(user_skills_lower, normalize_skill(required_skills[i].skill))})

\* a plausible slip: the test of line 663 inverted, counting the absent skills
calculate_skill_category_score_absent(user_skills, required_skills) ==
    IF required_skills = <<>>
    THEN Frac(0, 1)
    ELSE Frac(Len(required_skills) - present_count(user_skills, required_skills),
              Len(required_skills))

\* lines 653-666
calculate_skill_category_score(user_skills, required_skills) ==
    IF required_skills = <<>>
    THEN Frac(0, 1)
    ELSE Frac(present_count(user_skills, required_skills), Len(required_skills))

\* (core_score * 0.6) + (other_score * 0.3) + (soft_score * 0.1)
weighted_sum(c, o, s, wc, wo, ws) ==
    Frac(wc * c.num * o.den * s.den + wo * o.num * c.den * s.den + ws * s.num * c.den * o.den,
         10 * c.den * o.den * s.den)

\* a plausible slip: the weights of the other and soft categories exchanged
evaluate_overall_score_swapped(c, o, s) == weighted_sum(c, o, s, 6, 1, 3)

\* evaluate_industry_readiness, line 1124
evaluate_overall_score(c, o, s) == weighted_sum(c, o, s, 6, 3, 1)

\* assess_target_role_readiness, line 576
assess_overall_score(c, o, s) == weighted_sum(c, o, s, 6, 3, 1)

\* overall_score >= t / 10
AtLeastTenths(score, t) == 10 * score.num >= t * score.den

\* a plausible slip: strict comparisons at the two thresholds
evaluate_readiness_level_strict(overall_score) ==
    IF 10 * overall_score.num > 8 * overall_score.den THEN "Ready / Strong fit"
    ELSE IF 10 * overall_score.num > 6 * overall_score.den
         THEN "Workable with targeted upskilling"
         ELSE "Needs foundation"

\* evaluate_industry_readiness, lines 1127-1132
evaluate_readiness_level(overall_score) ==
    IF AtLeastTenths(overall_score, 8) THEN "Ready / Strong fit"
    ELSE IF AtLeastTenths(overall_score, 6) THEN "Workable with targeted upskilling"
         ELSE "Needs foundation"

\* assess_target_role_readiness, lines 579-584
assess_readiness_level(overall_score) ==
    IF AtLeastTenths(overall_score, 8) THEN "Ready / Strong fit"
    ELSE IF AtLeastTenths(overall_score, 6) THEN "Workable with targeted upskilling"
         ELSE "Needs foundation"

\* the entries of identify_missing_critical_skills before the [:5] cut
missing_entries(user_skills, required_skills) ==
    LET user_skills_lower == [i \in DOMAIN user_skills |-> normalize_skill(user_skills[i])]
        entry(i) == [skill |-> required_skills[i].skill,
                     required_level |-> required_skills[i].required_level,
                     current_level |-> 0,
                     gap_severity |-> IF required_skills[i].required_level >= 3
                                      THEN "High" ELSE "Medium",
                     learning_priority |-> i]
        all == [i \in DOMAIN required_skills |-> entry(i)]
    IN  SelectSeq(all, LAMBDA e : ~ list_contains(user_skills_lower, normalize_skill(e.skill)))

\* a plausible slip: learning_priority numbered along the result, not by the
\* position in the required list
identify_missing_critical_skills_renumbered(user_skills, required_skills) ==
    LET top == list_prefix(missing_entries(user_skills, required_skills), 5)
    IN  [n \in DOMAIN top |-> [top[n] EXCEPT !.learning_priority = n]]

\* lines 668-688
identify_missing_critical_skills(user_skills, required_skills) ==
    list_prefix(missing_entries(user_skills, required_skills), 5)

generate_skill_recommendations(missing_skills) ==
    LET top == list_prefix(missing_skills, 3)
    IN  [i \in DOMAIN top |->
            [priority |-> i,
             skill |-> top[i].skill,
             hours |-> IF top[i].required_level >= 3 THEN "15-25 hours" ELSE "8-15 hours",
             timeline |-> IF top[i].required_level >= 3 THEN "2-4 weeks" ELSE "1-2 weeks"]]

Error(status, msg) == [status |-> status, success |-> FALSE, error |-> msg]

\* the industry evaluation both handlers build; the scores are the unrounded
\* locals (the JSON body carries round(x, 2) of each)
Evaluation(core, other, soft, overall, level, missing) ==
    [core_score |-> core, other_score |-> other, soft_score |-> soft,
     overall_score |-> overall, readiness_level |-> level,
     missing_critical_skills |-> missing,
     recommendations |-> generate_skill_recommendations(missing)]

\* POST /evaluate-industry-readiness; the logger is not part of the sources: its
\* call either returns or raises, and the handler answers 500 when it raises
evaluate_industry_readiness ==
    /\ request # None
    /\ request.endpoint = "/evaluate-industry-readiness"
    /\ response = None
    /\ \E logger_raises \in BOOLEAN :
      response' =
        IF request.target_role = "" THEN Error(400, "target_role is required")
        ELSE IF request.extracted_skills = <<>>
             THEN Error(400, "extracted_skills array is required")
        ELSE IF request.role_profile = None THEN Error(400, "role_profile is required")
        ELSE IF logger_raises THEN Error(500, "exception")
        ELSE LET core_technical_skills == request.role_profile.core_technical_skills
                 other_technical_skills == request.role_profile.other_technical_skills
                 soft_skills == request.role_profile.soft_skills
                 core_score == calculate_skill_category_score(request.extracted_skills,
                                                              core_technical_skills)
                 other_score == calculate_skill_category_score(request.extracted_skills,
                                                               other_technical_skills)
                 soft_score == calculate_skill_category_score(request.extracted_skills,
                                                              soft_skills)
                 overall_score == evaluate_overall_score(core_score, other_score, soft_score)
             IN  [status |-> 200, success |-> TRUE,
                  evaluation |->
                    Evaluation(core_score, other_score, soft_score, overall_score,
                               evaluate_readiness_level(overall_score),
                               identify_missing_critical_skills(
                                   request.extracted_skills,
                                   core_technical_skills \o other_technical_skills))]
    /\ UNCHANGED <<request, call, result, profiler, curated, host, run>>

\* POST /assess-target-role-readiness; role_readiness_agent and the logger are
\* not part of the sources: their calls either return or raise, and the handler
\* answers 500 when one raises
assess_target_role_readiness ==
    /\ request # None
    /\ request.endpoint = "/assess-target-role-readiness"
    /\ response = None
    /\ \E agent_raises \in BOOLEAN :
        response' =
            IF request.skills = <<>> THEN Error(400, "No skills provided")
            ELSE IF request.target_role = "" THEN Error(400, "No target role specified")
            ELSE IF agent_raises THEN Error(500, "exception")
            ELSE LET role_profile == get_role_profile(request.target_role)
                     core_technical_skills == role_profile.core_technical_skills
                     other_technical_skills == role_profile.other_technical_skills
                     soft_skills == role_profile.soft_skills
                     core_score == calculate_skill_category_score(request.skills,
                                                                  core_technical_skills)
                     other_score == calculate_skill_category_score(request.skills,
                                                                   other_technical_skills)
                     soft_score == calculate_skill_category_score(request.skills, soft_skills)
                     overall_score == assess_overall_score(core_score, other_score, soft_score)
                 IN  [status |-> 200, success |-> TRUE,
                      evaluation |->
                        IF core_technical_skills = <<>> /\ other_technical_skills = <<>>
                           /\ soft_skills = <<>>
                        THEN None
                        ELSE Evaluation(core_score, other_score, soft_score, overall_score,
                                        assess_readiness_level(overall_score),
                                        identify_missing_critical_skills(
                                            request.skills,
                                            core_technical_skills \o other_technical_skills))]
    /\ UNCHANGED <<request, call, result, profiler, curated, host, run>>

(***************************************************************************)
(* Profiler: class PerformanceProfiler and the module-level instance       *)
(* (timestamps are abstracted to the timer's state)                        *)
(***************************************************************************)
\* PerformanceProfiler.__init__
NewProfiler == [timings |-> {}, cache |-> {}, cache_hits |-> 0, cache_misses |-> 0]

\* load_data_files found no data files: ({}, {}), the AI-only mode
NoCuratedData == JOB_ROLES_DATA = <<>> /\ COURSES_DATA = <<>>

\* no pipeline run is under way
NoRun == state = None /\ pc = "idle" /\ log = <<>>

\* os.makedirs(UPLOADS_DIR) has made the directory, and nothing is in it yet;
\* no other request is being served
NoUploads == uploads = <<>> /\ clock = 0 /\ peer = "idle"

\* self.timings[step_name] = {'start': time.time()}
start_timer(p, step_name) ==
    [p EXCEPT !.timings = {t \in @ : t.name # step_name}
                            \cup {[name |-> step_name, state |-> "running"]}]

\* sets 'end' and 'duration' of a timer that was started
end_timer(p, step_name) ==
    [p EXCEPT !.timings = {IF t.name = step_name
                           THEN [name |-> step_name, state |-> "finished"] ELSE t : t \in @}]

(***************************************************************************)
(* Priority trimming: get_priority_skills                                  *)
(***************************************************************************)
\* xs[:n] of a Python list, n of either sign
py_slice_to(xs, n) ==
    IF n >= 0 THEN list_prefix(xs, n)
    ELSE SubSeq(xs, 1, Max(0, Len(xs) + n))

\* int(max_count * 0.6) for max_count >= 0
int_times_0_6(max_count) == (max_count * 6) \div 10

\* a plausible slip: the share left over by nice_to_have is not handed to missing
missing_quota_fixed_share(len_missing, len_nice, max_count) ==
    Min(len_missing, int_times_0_6(max_count))

\* a plausible slip: the quota is not capped by the missing skills available
missing_quota_uncapped(len_missing, len_nice, max_count) ==
    Max(int_times_0_6(max_count), max_count - len_nice)

\* line 148
missing_quota_of(len_missing, len_nice, max_count) ==
    Min(len_missing, Max(int_times_0_6(max_count), max_count - len_nice))

\* the returned pair (lines 142-151)
get_priority_skills(missing_skills, nice_to_have, max_count) ==
    LET total_skills == Len(missing_skills) + Len(nice_to_have)
        missing_quota == missing_quota_of(Len(missing_skills), Len(nice_to_have), max_count)
        nice_quota == max_count - missing_quota
    IN  IF total_skills <= max_count
        THEN [missing |-> missing_skills, nice |-> nice_to_have]
        ELSE [missing |-> py_slice_to(missing_skills, missing_quota),
              nice |-> py_slice_to(nice_to_have, nice_quota)]

\* a call of get_priority_skills: the pair is returned and the module-level
\* profiler has timed 'input_trimming'
call_get_priority_skills ==
    /\ call # None
    /\ call.fn = "get_priority_skills"
    /\ result = None
    /\ result' = get_priority_skills(call.missing_skills, call.nice_to_have, call.max_count)
    /\ profiler' = end_timer(start_timer(profiler, "input_trimming"), "input_trimming")
    /\ UNCHANGED <<request, response, call, curated, host, run>>

(***************************************************************************)
(* Time estimation: estimate_skill_hours and calculate_time_estimates      *)
(***************************************************************************)
\* sub in s, for Python strs
str_contains(s, sub) ==
    \E i \in 0..(Len(s) - Len(sub)) : SubSeq(s, i + 1, i + Len(sub)) = sub

\* programming languages and frameworks, line 415
LanguageKeywords ==
    { <<"p", "y", "t", "h", "o", "n">>,
      <<"j", "a", "v", "a", "s", "c", "r", "i", "p", "t">>,
      <<"j", "a", "v", "a">>,
      <<"r", "e", "a", "c", "t">>,
      <<"a", "n", "g", "u", "l", "a", "r">>,
      <<"v", "u", "e">>,
      <<"d", "j", "a", "n", "g", "o">>,
      <<"f", "l", "a", "s", "k">>,
      <<"n", "o", "d", "e", "j", "s">> }

\* database and infrastructure, line 419
DatabaseKeywords ==
    { <<"s", "q", "l">>,
      <<"m", "o", "n", "g", "o", "d", "b">>,
      <<"p", "o", "s", "t", "g", "r", "e", "s", "q", "l">>,
      <<"m", "y", "s", "q", "l">>,
      <<"r", "e", "d", "i", "s">>,
      <<"d", "o", "c", "k", "e", "r">>,
      <<"k", "u", "b", "e", "r", "n", "e", "t", "e", "s">> }

\* cloud platforms, line 423
CloudKeywords ==
    { <<"a", "w", "s">>,
      <<"a", "z", "u", "r", "e">>,
      <<"g", "c", "p">>,
      <<"c", "l", "o", "u", "d">> }

\* data science and ML, line 427
DataScienceKeywords ==
    { <<"m", "a", "c", "h", "i", "n", "e", "-", "l", "e", "a", "r", "n", "i", "n", "g">>,
      <<"d", "a", "t", "a", "-", "s", "c", "i", "e", "n", "c", "e">>,
      <<"t", "e", "n", "s", "o", "r", "f", "l", "o", "w">>,
      <<"p", "y", "t", "o", "r", "c", "h">>,
      <<"p", "a", "n", "d", "a", "s">>,
      <<"n", "u", "m", "p", "y">> }

\* tools and utilities, line 431
ToolKeywords ==
    { <<"g", "i", "t">>,
      <<"j", "i", "r", "a">>,
      <<"f", "i", "g", "m", "a">>,
      <<"e", "x", "c", "e", "l">>,
      <<"t", "a", "b", "l", "e", "a", "u">> }

\* web technologies, line 435
WebKeywords ==
    { <<"h", "t", "m", "l">>,
      <<"c", "s", "s">>,
      <<"b", "o", "o", "t", "s", "t", "r", "a", "p">>,
      <<"s", "a", "s", "s">>,
      <<"t", "a", "i", "l", "w", "i", "n", "d">> }

any_in(keywords, skill_lower) == \E k \in keywords : str_contains(skill_lower, k)

estimate_skill_hours(skill) ==
    LET skill_lower == str_lower(skill)
    IN  IF any_in(LanguageKeywords, skill_lower) THEN 15
        ELSE IF any_in(DatabaseKeywords, skill_lower) THEN 12
        ELSE IF any_in(CloudKeywords, skill_lower) THEN 10
        ELSE IF any_in(DataScienceKeywords, skill_lower) THEN 18
        ELSE IF any_in(ToolKeywords, skill_lower) THEN 6
        ELSE IF any_in(WebKeywords, skill_lower) THEN 8
        ELSE 10

\* JSON values whose Python type the code tests: a dict is its key -> value
\* function, a str its characters
JDict(d) == [type |-> "dict", v |-> d]

JStr(s) == [type |-> "str", v |-> s]

\* a list is the sequence of its items
JList(xs) == [type |-> "list", v |-> xs]

\* d.get(key, default)
dict_get(d, key, default) == IF key \in DOMAIN d THEN d[key] ELSE default

\* d[key] = value
dict_set(d, key, value) ==
    [k \in DOMAIN d \cup {key} |-> IF k = key THEN value ELSE d[k]]

\* TIME_ESTIMATION_CONFIG
default_weekly_hours == 8

buffer_percentage == 10

\* parallel_efficiency, in hundredths
parallel_efficiency == 85

\* isinstance(x, int): a bool is an int in Python (True is 1, False is 0)
is_int(x) == x.type \in {"int", "bool"}

\* a plausible slip: an int below 1 falls back to the default
effective_weekly_hours_or_default(weekly_hours) ==
    IF is_int(weekly_hours) /\ weekly_hours.v >= 1 THEN weekly_hours.v
    ELSE default_weekly_hours

\* lines 351-355; the argument is None, an int, or a value of another type
effective_weekly_hours(weekly_hours) ==
    IF weekly_hours.type = "none" THEN default_weekly_hours
    ELSE IF is_int(weekly_hours) THEN Max(1, weekly_hours.v)
    ELSE default_weekly_hours

\* a plausible slip: floor division where the code takes the ceiling
ceil_div_floor(a, b) == a \div b

\* math.ceil(a / b) for a >= 0, b > 0
ceil_div(a, b) == (a + b - 1) \div b

\* lines 373-376: a dict step without est_hours gets the table value (in place)
backfill_step(step) ==
    IF step.type = "dict" /\ "est_hours" \notin DOMAIN step.v
    THEN JDict(dict_set(step.v, "est_hours",
                        estimate_skill_hours(dict_get(step.v, "skill", <<>>))))
    ELSE step

backfill_steps(steps) == [i \in DOMAIN steps |-> backfill_step(steps[i])]

\* line 377, on a step the loop has already backfilled
step_hours(step) ==
    IF step.type = "dict" THEN dict_get(step.v, "est_hours", 0) ELSE 0

\* a plausible slip: the hours are added before the step is backfilled
phase_total_hours_before_backfill(steps) ==
    LET F[i \in 0..Len(steps)] == IF i = 0 THEN 0 ELSE F[i - 1] + step_hours(steps[i])
    IN  F[Len(steps)]

\* phase_total_hours after the loop of lines 372-377 over the phase's steps
phase_total_hours_of(steps) ==
    LET F[i \in 0..Len(steps)] ==
            IF i = 0 THEN 0 ELSE F[i - 1] + step_hours(backfill_step(steps[i]))
    IN  F[Len(steps)]

\* a plausible slip: the buffered hours are rounded to the nearest hour
buffered_hours_rounded(overall_total_hours) ==
    (overall_total_hours * (100 + buffer_percentage) + 50) \div 100

\* int(overall_total_hours * (1 + buffer_percentage / 100)), line 396
buffered_hours_of(overall_total_hours) ==
    (overall_total_hours * (100 + buffer_percentage)) \div 100

\* int(phase_total_hours * parallel_efficiency), line 385
effective_hours_of(phase_total_hours) == (phase_total_hours * parallel_efficiency) \div 100

\* the numbers phase_time_frame spells out (lines 380-387)
phase_time_frame_of(phase_skills, phase_total_hours, weekly_hours) ==
    [hours |-> phase_total_hours,
     weeks |-> ceil_div(phase_total_hours, weekly_hours),
     weekly_hours |-> weekly_hours,
     effective |->
        IF Len(phase_skills) > 2
        THEN [hours |-> effective_hours_of(phase_total_hours),
              weeks |-> ceil_div(effective_hours_of(phase_total_hours), weekly_hours)]
        ELSE None]

\* one iteration of the loop of lines 363-393 on a dict phase: the enhanced copy
enhance_phase(phase, weekly_hours) ==
    LET phase_skills == backfill_steps(dict_get(phase.v, "skills", <<>>))
        phase_total_hours == phase_total_hours_of(dict_get(phase.v, "skills", <<>>))
        with_skills == IF "skills" \in DOMAIN phase.v
                       THEN dict_set(phase.v, "skills", phase_skills) ELSE phase.v
    IN  dict_set(dict_set(with_skills, "phase_total_hours", phase_total_hours),
                 "phase_time_frame",
                 phase_time_frame_of(phase_skills, phase_total_hours, weekly_hours))

\* the caller's roadmap after the call: phase.copy() is shallow, so the step
\* dicts backfilled through the copy are the caller's
roadmap_after_call(roadmap) ==
    [i \in DOMAIN roadmap |->
        IF roadmap[i].type = "dict" /\ "skills" \in DOMAIN roadmap[i].v
        THEN JDict(dict_set(roadmap[i].v, "skills", backfill_steps(roadmap[i].v.skills)))
        ELSE roadmap[i]]

calculate_time_estimates(roadmap, weekly_hours_arg) ==
    LET weekly_hours == effective_weekly_hours(weekly_hours_arg)
        dict_phases == SelectSeq(roadmap, LAMBDA phase : phase.type = "dict")
        enhanced_roadmap == [i \in DOMAIN dict_phases |-> enhance_phase(dict_phases[i], weekly_hours)]
        Total[i \in 0..Len(enhanced_roadmap)] ==
            IF i = 0 THEN 0 ELSE Total[i - 1] + enhanced_roadmap[i].phase_total_hours
        overall_total_hours == Total[Len(enhanced_roadmap)]
        buffered_hours == buffered_hours_of(overall_total_hours)
    IN  [phases |-> enhanced_roadmap,
         overall_total_hours |-> overall_total_hours,
         overall_buffered_hours |-> buffered_hours,
         overall_time_frame |->
            [hours |-> overall_total_hours,
             buffer_percentage |-> buffer_percentage,
             buffered_hours |-> buffered_hours,
             buffered_weeks |-> ceil_div(buffered_hours, weekly_hours),
             weekly_hours |-> weekly_hours],
         weekly_hours |-> weekly_hours]

call_calculate_time_estimates ==
    /\ call # None
    /\ call.fn = "calculate_time_estimates"
    /\ result = None
    /\ result' = calculate_time_estimates(call.roadmap, call.weekly_hours)
    /\ call' = [call EXCEPT !.roadmap = roadmap_after_call(@)]
    /\ UNCHANGED <<request, response, profiler, curated, host, run>>


(***************************************************************************)
(* The deterministic roadmap: generate_fallback_roadmap                    *)
(***************************************************************************)
\* xs[a:b] of a Python list for 0 <= a
py_slice(xs, a, b) == SubSeq(xs, a + 1, Min(b, Len(xs)))

\* the curated tables are dicts in file order: sequences of key/value entries
Entry(key, value) == [key |-> key, value |-> value]

\* module-level get_courses_for_skill_optimized (lines 481-486): the first three
\* courses of the first key equal to the skill up to case
get_courses_for_skill_optimized(skill) ==
    LET hits == SelectSeq(COURSES_DATA, LAMBDA e : str_lower(skill) = str_lower(e.key))
    IN  IF hits = <<>> THEN <<>> ELSE py_slice(hits[1].value, 0, 3)

\* f"Learn {skill} - Online Course"
learn_online_course(skill) ==
    <<"L", "e", "a", "r", "n", " ">> \o skill
        \o <<" ", "-", " ", "O", "n", "l", "i", "n", "e", " ", "C", "o", "u", "r", "s", "e">>

\* f"Essential {skill} skills"
essential_skills(skill) ==
    <<"E", "s", "s", "e", "n", "t", "i", "a", "l", " ">> \o skill
        \o <<" ", "s", "k", "i", "l", "l", "s">>

\* lines 464-472
fallback_step(skill) ==
    LET course_list == get_courses_for_skill_optimized(skill)
    IN  JDict([skill |-> skill,
               course |-> IF course_list # <<>> THEN course_list[1]
                          ELSE learn_online_course(skill),
               reason |-> essential_skills(skill),
               est_hours |-> estimate_skill_hours(skill)])

\* a plausible slip: the phase size is rounded up
skills_per_phase_ceil(n) == Max(1, ceil_div(n, 3))

\* line 450
skills_per_phase(n) == Max(1, n \div 3)

\* phases, line 453
phase_names == <<"Phase 1: Foundation", "Phase 2: Intermediate", "Phase 3: Advanced">>

\* lines 456-458, i counting from 0
fallback_phase_skills(all_skills, i) ==
    LET start_idx == i * skills_per_phase(Len(all_skills))
        end_idx == IF i < 2 THEN start_idx + skills_per_phase(Len(all_skills))
                   ELSE Len(all_skills)
    IN  py_slice(all_skills, start_idx, end_idx)

generate_fallback_roadmap(missing_skills, nice_to_have) ==
    LET all_skills == missing_skills \o nice_to_have
        phase_of(i) ==
            LET phase_skills == fallback_phase_skills(all_skills, i - 1)
            IN  JDict([phase |-> phase_names[i],
                       skills |-> [k \in DOMAIN phase_skills |-> fallback_step(phase_skills[k])]])
        kept == SelectSeq(<<1, 2, 3>>,
                          LAMBDA i : fallback_phase_skills(all_skills, i - 1) # <<>>)
    IN  [k \in DOMAIN kept |-> phase_of(kept[k])]

call_generate_fallback_roadmap ==
    /\ call # None
    /\ call.fn = "generate_fallback_roadmap"
    /\ result = None
    /\ result' = JList(generate_fallback_roadmap(call.missing_skills, call.nice_to_have))
    /\ UNCHANGED <<request, response, call, profiler, curated, host, run>>


(***************************************************************************)
(* Curated course data                                                     *)
(***************************************************************************)
s_Docker == <<"D", "o", "c", "k", "e", "r">>

c_docker_101 == <<"D", "o", "c", "k", "e", "r", " ", "1", "0", "1">>

c_docker_deep == <<"D", "o", "c", "k", "e", "r", " ", "D", "e", "e", "p">>

c_docker_ops == <<"D", "o", "c", "k", "e", "r", " ", "O", "p", "s">>

c_docker_pro == <<"D", "o", "c", "k", "e", "r", " ", "P", "r", "o">>

c_sql_basics == <<"S", "Q", "L", " ", "B", "a", "s", "i", "c", "s">>

\* a courses.json: four courses under "Docker", one under "sql", none under "aws"
SampleCourses ==
    << Entry(s_Docker, <<c_docker_101, c_docker_deep, c_docker_ops, c_docker_pro>>),
       Entry(s_sql, <<c_sql_basics>>),
       Entry(s_aws, <<>>) >>

(***************************************************************************)
(* The text-generation service and the JSON it returns                     *)
(***************************************************************************)
\* json.loads yields a Python value of any type; a generated document is tagged
\* with its type at every level
JNum(n) == [type |-> "int", v |-> n]

JNull == [type |-> "null"]

\* bool(x) of a JSON value
truthy(x) ==
    CASE x.type = "null" -> FALSE
      [] x.type = "int" -> x.v # 0
      [] x.type = "dict" -> DOMAIN x.v # {}
      [] OTHER -> x.v # <<>>

\* outcomes of llm.invoke: it raises (connection error, time-out, refusal of the
\* key), or returns a message whose content is a text.  A text is a sequence of
\* chunks: a code fence marked json, a bare code fence (three backquotes), a
\* JSON document, or other text
InvokeRaises == [kind |-> "raises"]

Message(content) == [kind |-> "message", content |-> content]

FenceJson == [chunk |-> "fence_json"]

Fence == [chunk |-> "fence"]

Prose == [chunk |-> "text"]

Json(value) == [chunk |-> "json", value |-> value]

\* lines 335-339 (and 518-522, 683-687): strip, then drop the fences when the
\* text starts with one; removing the bare fences from a text that does not
\* start with a json fence leaves the word json of a later json fence behind
strip_code_fences(content) ==
    IF content # <<>> /\ content[1].chunk = "fence_json"
    THEN SelectSeq(content, LAMBDA c : c.chunk \notin {"fence_json", "fence"})
    ELSE IF content # <<>> /\ content[1].chunk = "fence"
    THEN LET kept == SelectSeq(content, LAMBDA c : c.chunk # "fence")
         IN  [i \in DOMAIN kept |-> IF kept[i].chunk = "fence_json" THEN Prose ELSE kept[i]]
    ELSE content

\* json.loads: the text must be one JSON document and nothing else
json_loads(content) ==
    IF Len(content) = 1 /\ content[1].chunk = "json"
    THEN [error |-> "none", value |-> content[1].value]
    ELSE [error |-> "JSONDecodeError"]

\* result.get(key, default) on the parsed value: only a dict has .get
json_get(parsed, key, default) ==
    IF parsed.error # "none" THEN parsed
    ELSE IF parsed.value.type # "dict" THEN [error |-> "AttributeError"]
    ELSE [error |-> "none", value |-> dict_get(parsed.value.v, key, default)]

\* parse_llm_response (lines 331-345): JSONDecodeError and KeyError are caught
\* and give [], any other exception leaves the function
parse_llm_response(content) ==
    LET got == json_get(json_loads(strip_code_fences(content)), "roadmap", JList(<<>>))
    IN  IF got.error \in {"JSONDecodeError", "KeyError"}
        THEN [error |-> "none", value |-> JList(<<>>)]
        ELSE got

(***************************************************************************)
(* Roadmap stage: agent3_roadmap_mentor_optimized                          *)
(***************************************************************************)
\* what the log records of a run: a stage was entered, called the service and
\* got a reply, printed that it falls back, returned
Event(stage, event) == [stage |-> stage, event |-> event]

Invoked(stage, reply) == [stage |-> stage, event |-> "invoke", reply |-> reply]

\* PerformanceProfiler.get_performance_report, durations abstracted: the steps
\* that have a duration and the cache statistics
get_performance_report(p) ==
    [step_timings |-> {t.name : t \in {u \in p.timings : u.state = "finished"}},
     cache_stats |->
        [hits |-> p.cache_hits,
         misses |-> p.cache_misses,
         hit_ratio |-> IF p.cache_hits + p.cache_misses > 0
                       THEN Frac(p.cache_hits, p.cache_hits + p.cache_misses)
                       ELSE Frac(0, 1)]]

max_gaps_to_process == 8

\* for ... in x
iterable(x) == x.type \in {"list", "str", "dict"}

\* lines 207-212 raise a TypeError unless both skill values are lists: len() of
\* None or of a number, the slice of a dict, the sum of a list and a str.  (Two
\* strs pass these lines and are taken apart into characters later; no reply
\* enumerated below puts strs in both fields.)
priority_skills_raise(missing_skills, nice_to_have) ==
    ~ (missing_skills.type = "list" /\ nice_to_have.type = "list")

\* get_course_candidates_parallel (lines 156-194) with parallel processing off:
\* the profiler times 'course_retrieval'; the candidates only enter the prompt
course_candidates_profiler(p) ==
    end_timer(start_timer(p, "course_retrieval"), "course_retrieval")

\* the timers of lines 198-272, up to the call of the service
profiler_before_llm_call(p) ==
    LET p1 == start_timer(p, "roadmap_generation_total")
        p2 == end_timer(start_timer(p1, "input_trimming"), "input_trimming")
        p3 == course_candidates_profiler(p2)
        p4 == end_timer(start_timer(p3, "llm_prompt_preparation"), "llm_prompt_preparation")
    IN  start_timer(p4, "llm_call")

\* a plausible slip: the cache write of lines 309-311, which is commented out,
\* is made
profiler_after_llm_call_caching(p) ==
    LET p1 == start_timer(end_timer(p, "llm_call"), "post_processing")
    IN  [end_timer(end_timer(p1, "post_processing"), "roadmap_generation_total")
            EXCEPT !.cache = {"roadmap"}]

\* the timers of lines 292-314
profiler_after_llm_call(p) ==
    LET p1 == start_timer(end_timer(p, "llm_call"), "post_processing")
    IN  end_timer(end_timer(p1, "post_processing"), "roadmap_generation_total")

\* the items a for loop over a JSON value visits: the items of a list, the
\* characters of a str
items_of(x) == IF x.type = "list" THEN x.v ELSE [i \in DOMAIN x.v |-> JStr(<<x.v[i]>>)]

\* the loop of lines 372-377 over one step raises: .lower() of a skill that is
\* no str (line 376), or the sum of a number and an est_hours that is none
\* (line 377)
step_raises(step) ==
    /\ step.type = "dict"
    /\ IF "est_hours" \notin DOMAIN step.v
       THEN dict_get(step.v, "skill", JStr(<<>>)).type # "str"
       ELSE step.v.est_hours.type # "int"

\* the loop of lines 363-393 over one phase raises: a 'skills' value that
\* cannot be iterated (line 372), or one of its steps
phase_raises(phase) ==
    /\ phase.type = "dict"
    /\ LET phase_skills == dict_get(phase.v, "skills", JList(<<>>))
       IN  \/ ~ iterable(phase_skills)
           \/ \E i \in DOMAIN items_of(phase_skills) : step_raises(items_of(phase_skills)[i])

\* calculate_time_estimates raises on a generated roadmap
time_estimates_raise(roadmap_result) ==
    \/ ~ iterable(roadmap_result)
    \/ roadmap_result.type = "list"
        /\ \E i \in DOMAIN roadmap_result.v : phase_raises(roadmap_result.v[i])

\* a generated step, phase or roadmap on which the loops do not raise, as the
\* value calculate_time_estimates above computes with: the fields of a dict
\* without their type tags
as_step(step) ==
    IF step.type = "dict" THEN JDict([k \in DOMAIN step.v |-> step.v[k].v]) ELSE step

as_phase(phase) ==
    IF phase.type = "dict"
    THEN JDict([k \in DOMAIN phase.v |->
                    IF k = "skills"
                    THEN [i \in DOMAIN items_of(phase.v[k]) |-> as_step(items_of(phase.v[k])[i])]
                    ELSE phase.v[k].v])
    ELSE phase

as_roadmap(roadmap_result) ==
    [i \in DOMAIN items_of(roadmap_result) |-> as_phase(items_of(roadmap_result)[i])]

\* lines 281-290: the generated roadmap is used when the reply parsed without
\* an exception into a value that is true
use_generated(parsed) == parsed.error = "none" /\ truthy(parsed.value)

\* a plausible slip: the service is called once more before the stage falls back
agent3_events_retrying(reply, generated) ==
    <<Event("agent3", "start"), Invoked("agent3", reply)>>
        \o (IF generated THEN <<>>
            ELSE <<Invoked("agent3", reply), Event("agent3", "fallback")>>)

\* the events of the stage up to the post-processing: the fallback is announced
\* when the generated roadmap is not used (lines 285-290)
agent3_events(reply, generated) ==
    <<Event("agent3", "start"), Invoked("agent3", reply)>>
        \o (IF generated THEN <<>> ELSE <<Event("agent3", "fallback")>>)

\* a plausible slip: the stage returns its own fields alone, not the state
agent3_state_alone(s, enhanced_roadmap_data, performance_data) ==
    [roadmap |-> JList(enhanced_roadmap_data.phases),
     time_estimates |->
        [overall_total_hours |-> enhanced_roadmap_data.overall_total_hours,
         overall_buffered_hours |-> enhanced_roadmap_data.overall_buffered_hours,
         overall_time_frame |-> enhanced_roadmap_data.overall_time_frame,
         weekly_hours |-> enhanced_roadmap_data.weekly_hours],
     performance_data |-> performance_data]

\* lines 298-312: the state with the roadmap, the time estimates and the report
agent3_state(s, enhanced_roadmap_data, performance_data) ==
    dict_set(dict_set(dict_set(s, "roadmap", JList(enhanced_roadmap_data.phases)),
                      "time_estimates",
                      [overall_total_hours |-> enhanced_roadmap_data.overall_total_hours,
                       overall_buffered_hours |-> enhanced_roadmap_data.overall_buffered_hours,
                       overall_time_frame |-> enhanced_roadmap_data.overall_time_frame,
                       weekly_hours |-> enhanced_roadmap_data.weekly_hours]),
             "performance_data", performance_data)

\* lines 283-329, once the reply is parsed: the generated roadmap or the
\* fallback roadmap gets its time estimates, outside the try
agent3_post_processing(s, p, reply, priority, parsed) ==
    IF use_generated(parsed) /\ time_estimates_raise(parsed.value)
    THEN [raises |-> TRUE, state |-> s,
          profiler |-> start_timer(end_timer(profiler_before_llm_call(p), "llm_call"),
                                   "post_processing"),
          events |-> agent3_events(reply, TRUE)]
    ELSE [raises |-> FALSE,
          state |-> agent3_state(s,
                        calculate_time_estimates(
                            IF use_generated(parsed) THEN as_roadmap(parsed.value)
                            ELSE generate_fallback_roadmap(priority.missing, priority.nice),
                            [type |-> "none"]),
                        get_performance_report(
                            profiler_after_llm_call(profiler_before_llm_call(p)))),
          profiler |-> profiler_after_llm_call(profiler_before_llm_call(p)),
          events |-> Append(agent3_events(reply, use_generated(parsed)),
                            Event("agent3", "return"))]

\* lines 207-212 on the two skill values of the state, then the reply
agent3_on_skills(s, p, reply, missing_skills, nice_to_have) ==
    IF priority_skills_raise(missing_skills, nice_to_have)
    THEN [raises |-> TRUE, state |-> s,
          profiler |-> start_timer(start_timer(p, "roadmap_generation_total"), "input_trimming"),
          events |-> <<Event("agent3", "start")>>]
    ELSE agent3_post_processing(s, p, reply,
            get_priority_skills(missing_skills.v, nice_to_have.v, max_gaps_to_process),
            IF reply.kind = "raises" THEN [error |-> "Exception"]
            ELSE parse_llm_response(reply.content))

\* the stage on state s with the profiler p, for a reply of the service: what it
\* raises or returns, the profiler afterwards and the events in between
agent3_outcome(s, p, reply) ==
    agent3_on_skills(s, p, reply, dict_get(s, "missing_skills", JList(<<>>)),
                     dict_get(s, "nice_to_have", JList(<<>>)))


\* replies of the service to the roadmap prompt.  Phase names are not taken
\* apart, they are strings as a whole
generated_step(skill, est_hours) == JDict([skill |-> JStr(skill), est_hours |-> JNum(est_hours)])

generated_phase(phase, skills) == JDict([phase |-> JStr(phase), skills |-> skills])

\* two phases of steps with est_hours, without, and a bare skill name
GeneratedPlan ==
    JList(<< generated_phase("Phase 1: Foundation",
                JList(<< generated_step(s_python, 7),
                         JDict([skill |-> JStr(s_docker)]),
                         JStr(s_git) >>)),
             generated_phase("Phase 2: Applied",
                JList(<< generated_step(s_aws, 9), JDict([course |-> JStr(c_sql_basics)]) >>)) >>)

\* values under the key roadmap: usable plans, values that are false, and
\* values or fields of another type than the prompt asks for
GeneratedRoadmaps ==
    << GeneratedPlan,
       JList(<< generated_phase("Phase 1", JList(<< generated_step(s_sql, 15) >>)) >>),
       JList(<< JStr(<<"x">>), JDict([phase |-> JStr("Phase 1")]) >>),
       JList(<<>>), JNull, JNum(0),
       JNum(5),
       JStr(<<"s", "o", "o", "n">>),
       JList(<< generated_phase("Phase 1", JNull) >>),
       JList(<< generated_phase("Phase 1",
                 JList(<< JDict([skill |-> JStr(s_python), est_hours |-> JStr(<<"1", "5">>)]) >>)) >>),
       JList(<< generated_phase("Phase 1",
                 JList(<< JDict([skill |-> JStr(s_python), est_hours |-> JNull]) >>)) >>),
       JList(<< generated_phase("Phase 1", JList(<< JDict([skill |-> JNull]) >>)) >> ) >>

\* JSON documents: an object with the key roadmap, an object without it, and
\* documents that are no object
RoadmapDocuments ==
    [i \in DOMAIN GeneratedRoadmaps |-> JDict([roadmap |-> GeneratedRoadmaps[i]])]
    \o << JDict([plan |-> GeneratedPlan]), JList(<<GeneratedPlan>>), JNull, JStr(<<"o", "k">>) >>

\* the plan inside either fence, after an introduction, and texts without a
\* document
WrappedPlans ==
    << <<FenceJson, Json(JDict([roadmap |-> GeneratedPlan])), Fence>>,
       <<Fence, Json(JDict([roadmap |-> GeneratedPlan])), Fence>>,
       <<Prose, FenceJson, Json(JDict([roadmap |-> GeneratedPlan])), Fence>>,
       <<Fence, Prose, FenceJson, Json(JDict([roadmap |-> GeneratedPlan])), Fence>>,
       <<Prose>>,
       <<>> >>

\* the replies, listed
RoadmapReplies ==
    <<InvokeRaises>>
    \o [i \in DOMAIN RoadmapDocuments |-> Message(<<Json(RoadmapDocuments[i])>>)]
    \o [i \in DOMAIN WrappedPlans |-> Message(WrappedPlans[i])]

\* the graph of the pipeline, lines 772-775: the entry point and the edge that
\* leaves each node
entry_point == "agent1"

\* a plausible slip: the edge from agent1 leads past agent2
edge_skipping(node) ==
    CASE node = "agent1" -> "agent3"
      [] node = "agent2" -> "agent3"
      [] node = "agent3" -> "END"

edge(node) ==
    CASE node = "agent1" -> "agent2"
      [] node = "agent2" -> "agent3"
      [] node = "agent3" -> "END"

\* the stage as a node of the pipeline's graph: it returns to the graph, which
\* follows the edge to END, or its exception leaves the run
agent3_roadmap_mentor_optimized ==
    /\ pc = "agent3"
    /\ \E i \in DOMAIN RoadmapReplies :
        \E out \in {agent3_outcome(state, profiler, RoadmapReplies[i])} :
            /\ state' = out.state
            /\ profiler' = out.profiler
            /\ log' = log \o out.events
            /\ pc' = IF out.raises THEN "raised" ELSE edge("agent3")
    /\ UNCHANGED <<request, response, call, result, curated, host>>


(***************************************************************************)
(* Skill extraction: extract_skills_fallback and agent1_skill_extractor    *)
(***************************************************************************)
Digits == {"0", "1", "2", "3", "4", "5", "6", "7", "8", "9"}

\* \s
WhitespaceChars == {" ", "\t", "\n"}

\* \w
WordChars == Range(LowerChars) \cup Range(UpperChars) \cup Digits \cup {"_"}

\* [a-zA-Z+#.,\s], line 624
LangTextChars ==
    Range(LowerChars) \cup Range(UpperChars) \cup {"+", "#", ".", ","} \cup WhitespaceChars

\* \b at offset k of the text: exactly one of the characters before and after
\* the offset is a word character
word_boundary(text, k) ==
    (k >= 1 /\ text[k] \in WordChars) # (k < Len(text) /\ text[k + 1] \in WordChars)

\* the text continues with lit at offset k
literal_at(text, k, lit) ==
    k + Len(lit) <= Len(text) /\ SubSeq(text, k + 1, k + Len(lit)) = lit

\* an entry of skill_patterns, r'\b(alternative|...)\b(?!not_followed_by)'
Pattern(skill, alternatives, not_followed_by) ==
    [skill |-> skill, alternatives |-> alternatives, not_followed_by |-> not_followed_by]

\* lines 554-612, in the order of the dict
skill_patterns ==
    << Pattern(<<"p", "y", "t", "h", "o", "n">>,
               << <<"p", "y", "t", "h", "o", "n">>,
                  <<"p", "y">> >>,
               <<>>),
       Pattern(<<"j", "a", "v", "a", "s", "c", "r", "i", "p", "t">>,
               << <<"j", "a", "v", "a", "s", "c", "r", "i", "p", "t">>,
                  <<"j", "s">>,
                  <<"j", "a", "v", "a", "-", "s", "c", "r", "i", "p", "t">> >>,
               <<>>),
       Pattern(<<"j", "a", "v", "a">>,
               << <<"j", "a", "v", "a">> >>,
               <<"s", "c", "r", "i", "p", "t">>),
       Pattern(<<"c", "s", "h", "a", "r", "p">>,
               << <<"c", "#">>,
                  <<"c", "s", "h", "a", "r", "p">>,
                  <<"c", "-", "s", "h", "a", "r", "p">> >>,
               <<>>),
       Pattern(<<"c", "p", "p">>,
               << <<"c", "+", "+">>,
                  <<"c", "p", "p">>,
                  <<"c", " ", "p", "l", "u", "s", " ", "p", "l", "u", "s">> >>,
               <<>>),
       Pattern(<<"t", "y", "p", "e", "s", "c", "r", "i", "p", "t">>,
               << <<"t", "y", "p", "e", "s", "c", "r", "i", "p", "t">>,
                  <<"t", "s">> >>,
               <<>>),
       Pattern(<<"r", "e", "a", "c", "t">>,
               << <<"r", "e", "a", "c", "t">>,
                  <<"r", "e", "a", "c", "t", ".", "j", "s">>,
                  <<"r", "e", "a", "c", "t", "j", "s">> >>,
               <<>>),
       Pattern(<<"n", "o", "d", "e", "j", "s">>,
               << <<"n", "o", "d", "e", ".", "j", "s">>,
                  <<"n", "o", "d", "e", "j", "s">>,
                  <<"n", "o", "d", "e", " ", "j", "s">> >>,
               <<>>),
       Pattern(<<"v", "u", "e", "j", "s">>,
               << <<"v", "u", "e", ".", "j", "s">>,
                  <<"v", "u", "e">>,
                  <<"v", "u", "e", "j", "s">> >>,
               <<>>),
       Pattern(<<"a", "n", "g", "u", "l", "a", "r">>,
               << <<"a", "n", "g", "u", "l", "a", "r">>,
                  <<"a", "n", "g", "u", "l", "a", "r", "j", "s">> >>,
               <<>>),
       Pattern(<<"d", "j", "a", "n", "g", "o">>,
               << <<"d", "j", "a", "n", "g", "o">> >>,
               <<>>),
       Pattern(<<"f", "l", "a", "s", "k">>,
               << <<"f", "l", "a", "s", "k">> >>,
               <<>>),
       Pattern(<<"e", "x", "p", "r", "e", "s", "s">>,
               << <<"e", "x", "p", "r", "e", "s", "s">>,
                  <<"e", "x", "p", "r", "e", "s", "s", ".", "j", "s">>,
                  <<"e", "x", "p", "r", "e", "s", "s", "j", "s">> >>,
               <<>>),
       Pattern(<<"m", "o", "n", "g", "o", "d", "b">>,
               << <<"m", "o", "n", "g", "o", "d", "b">>,
                  <<"m", "o", "n", "g", "o">> >>,
               <<>>),
       Pattern(<<"p", "o", "s", "t", "g", "r", "e", "s", "q", "l">>,
               << <<"p", "o", "s", "t", "g", "r", "e", "s", "q", "l">>,
                  <<"p", "o", "s", "t", "g", "r", "e", "s">> >>,
               <<>>),
       Pattern(<<"m", "y", "s", "q", "l">>,
               << <<"m", "y", "s", "q", "l">> >>,
               <<>>),
       Pattern(<<"s", "q", "l", "i", "t", "e">>,
               << <<"s", "q", "l", "i", "t", "e">> >>,
               <<>>),
       Pattern(<<"r", "e", "d", "i", "s">>,
               << <<"r", "e", "d", "i", "s">> >>,
               <<>>),
       Pattern(<<"g", "i", "t">>,
               << <<"g", "i", "t">> >>,
               <<>>),
       Pattern(<<"d", "o", "c", "k", "e", "r">>,
               << <<"d", "o", "c", "k", "e", "r">> >>,
               <<>>),
       Pattern(<<"k", "u", "b", "e", "r", "n", "e", "t", "e", "s">>,
               << <<"k", "u", "b", "e", "r", "n", "e", "t", "e", "s">>,
                  <<"k", "8", "s">> >>,
               <<>>),
       Pattern(<<"a", "w", "s">>,
               << <<"a", "w", "s">>,
                  <<"a", "m", "a", "z", "o", "n", " ", "w", "e", "b", " ", "s", "e", "r", "v", "i", "c", "e", "s">> >>,
               <<>>),
       Pattern(<<"a", "z", "u", "r", "e">>,
               << <<"a", "z", "u", "r", "e">>,
                  <<"m", "i", "c", "r", "o", "s", "o", "f", "t", " ", "a", "z", "u", "r", "e">> >>,
               <<>>),
       Pattern(<<"g", "c", "p">>,
               << <<"g", "c", "p">>,
                  <<"g", "o", "o", "g", "l", "e", " ", "c", "l", "o", "u", "d">>,
                  <<"g", "o", "o", "g", "l", "e", " ", "c", "l", "o", "u", "d", " ", "p", "l", "a", "t", "f", "o", "r", "m">> >>,
               <<>>),
       Pattern(<<"h", "t", "m", "l">>,
               << <<"h", "t", "m", "l">>,
                  <<"h", "t", "m", "l", "5">> >>,
               <<>>),
       Pattern(<<"c", "s", "s">>,
               << <<"c", "s", "s">>,
                  <<"c", "s", "s", "3">> >>,
               <<>>),
       Pattern(<<"b", "o", "o", "t", "s", "t", "r", "a", "p">>,
               << <<"b", "o", "o", "t", "s", "t", "r", "a", "p">> >>,
               <<>>),
       Pattern(<<"t", "a", "i", "l", "w", "i", "n", "d">>,
               << <<"t", "a", "i", "l", "w", "i", "n", "d">>,
                  <<"t", "a", "i", "l", "w", "i", "n", "d", "c", "s", "s">> >>,
               <<>>),
       Pattern(<<"s", "a", "s", "s">>,
               << <<"s", "a", "s", "s">>,
                  <<"s", "c", "s", "s">> >>,
               <<>>),
       Pattern(<<"s", "q", "l">>,
               << <<"s", "q", "l">> >>,
               <<>>),
       Pattern(<<"n", "o", "s", "q", "l">>,
               << <<"n", "o", "s", "q", "l">> >>,
               <<>>),
       Pattern(<<"r", "e", "s", "t", "-", "a", "p", "i">>,
               << <<"r", "e", "s", "t">>,
                  <<"r", "e", "s", "t", " ", "a", "p", "i">>,
                  <<"r", "e", "s", "t", " ", "a", "p", "i", "s">>,
                  <<"r", "e", "s", "t", "f", "u", "l">> >>,
               <<>>),
       Pattern(<<"g", "r", "a", "p", "h", "q", "l">>,
               << <<"g", "r", "a", "p", "h", "q", "l">> >>,
               <<>>),
       Pattern(<<"j", "s", "o", "n">>,
               << <<"j", "s", "o", "n">> >>,
               <<>>),
       Pattern(<<"x", "m", "l">>,
               << <<"x", "m", "l">> >>,
               <<>>),
       Pattern(<<"p", "a", "n", "d", "a", "s">>,
               << <<"p", "a", "n", "d", "a", "s">> >>,
               <<>>),
       Pattern(<<"n", "u", "m", "p", "y">>,
               << <<"n", "u", "m", "p", "y">> >>,
               <<>>),
       Pattern(<<"s", "c", "i", "k", "i", "t", "-", "l", "e", "a", "r", "n">>,
               << <<"s", "c", "i", "k", "i", "t", "-", "l", "e", "a", "r", "n">>,
                  <<"s", "k", "l", "e", "a", "r", "n">> >>,
               <<>>),
       Pattern(<<"t", "e", "n", "s", "o", "r", "f", "l", "o", "w">>,
               << <<"t", "e", "n", "s", "o", "r", "f", "l", "o", "w">> >>,
               <<>>),
       Pattern(<<"p", "y", "t", "o", "r", "c", "h">>,
               << <<"p", "y", "t", "o", "r", "c", "h">> >>,
               <<>>),
       Pattern(<<"m", "a", "c", "h", "i", "n", "e", "-", "l", "e", "a", "r", "n", "i", "n", "g">>,
               << <<"m", "a", "c", "h", "i", "n", "e", " ", "l", "e", "a", "r", "n", "i", "n", "g">>,
                  <<"m", "l">>,
                  <<"m", "a", "c", "h", "i", "n", "e", "-", "l", "e", "a", "r", "n", "i", "n", "g">> >>,
               <<>>),
       Pattern(<<"d", "a", "t", "a", "-", "s", "c", "i", "e", "n", "c", "e">>,
               << <<"d", "a", "t", "a", " ", "s", "c", "i", "e", "n", "c", "e">>,
                  <<"d", "a", "t", "a", "-", "s", "c", "i", "e", "n", "c", "e">> >>,
               <<>>),
       Pattern(<<"d", "e", "e", "p", "-", "l", "e", "a", "r", "n", "i", "n", "g">>,
               << <<"d", "e", "e", "p", " ", "l", "e", "a", "r", "n", "i", "n", "g">>,
                  <<"d", "e", "e", "p", "-", "l", "e", "a", "r", "n", "i", "n", "g">> >>,
               <<>>),
       Pattern(<<"t", "a", "b", "l", "e", "a", "u">>,
               << <<"t", "a", "b", "l", "e", "a", "u">> >>,
               <<>>),
       Pattern(<<"p", "o", "w", "e", "r", "b", "i">>,
               << <<"p", "o", "w", "e", "r", " ", "b", "i">>,
                  <<"p", "o", "w", "e", "r", "b", "i">>,
                  <<"p", "o", "w", "e", "r", "-", "b", "i">> >>,
               <<>>),
       Pattern(<<"e", "x", "c", "e", "l">>,
               << <<"e", "x", "c", "e", "l">>,
                  <<"m", "i", "c", "r", "o", "s", "o", "f", "t", " ", "e", "x", "c", "e", "l">> >>,
               <<>>),
       Pattern(<<"j", "u", "p", "y", "t", "e", "r">>,
               << <<"j", "u", "p", "y", "t", "e", "r">>,
                  <<"j", "u", "p", "y", "t", "e", "r", " ", "n", "o", "t", "e", "b", "o", "o", "k">>,
                  <<"j", "u", "p", "y", "t", "e", "r", " ", "n", "o", "t", "e", "b", "o", "o", "k", "s">> >>,
               <<>>),
       Pattern(<<"l", "i", "n", "u", "x">>,
               << <<"l", "i", "n", "u", "x">>,
                  <<"u", "b", "u", "n", "t", "u">>,
                  <<"c", "e", "n", "t", "o", "s">> >>,
               <<>>),
       Pattern(<<"w", "i", "n", "d", "o", "w", "s">>,
               << <<"w", "i", "n", "d", "o", "w", "s">> >>,
               <<>>),
       Pattern(<<"m", "a", "c", "o", "s">>,
               << <<"m", "a", "c", "o", "s">>,
                  <<"m", "a", "c", " ", "o", "s">> >>,
               <<>>),
       Pattern(<<"b", "a", "s", "h">>,
               << <<"b", "a", "s", "h">>,
                  <<"s", "h", "e", "l", "l", " ", "s", "c", "r", "i", "p", "t", "i", "n", "g">> >>,
               <<>>),
       Pattern(<<"p", "o", "w", "e", "r", "s", "h", "e", "l", "l">>,
               << <<"p", "o", "w", "e", "r", "s", "h", "e", "l", "l">> >>,
               <<>>),
       Pattern(<<"j", "i", "r", "a">>,
               << <<"j", "i", "r", "a">> >>,
               <<>>),
       Pattern(<<"c", "o", "n", "f", "l", "u", "e", "n", "c", "e">>,
               << <<"c", "o", "n", "f", "l", "u", "e", "n", "c", "e">> >>,
               <<>>),
       Pattern(<<"s", "l", "a", "c", "k">>,
               << <<"s", "l", "a", "c", "k">> >>,
               <<>>),
       Pattern(<<"f", "i", "g", "m", "a">>,
               << <<"f", "i", "g", "m", "a">> >>,
               <<>>),
       Pattern(<<"p", "h", "o", "t", "o", "s", "h", "o", "p">>,
               << <<"p", "h", "o", "t", "o", "s", "h", "o", "p">>,
                  <<"a", "d", "o", "b", "e", " ", "p", "h", "o", "t", "o", "s", "h", "o", "p">> >>,
               <<>>) >>

\* re.search(pattern, text) for an entry of skill_patterns
re_search(pattern, text) ==
    \E k \in 0..Len(text) :
        /\ word_boundary(text, k)
        /\ \E a \in DOMAIN pattern.alternatives :
            LET lit == pattern.alternatives[a]
            IN  /\ literal_at(text, k, lit)
                /\ word_boundary(text, k + Len(lit))
                /\ \/ pattern.not_followed_by = <<>>
                   \/ ~ literal_at(text, k + Len(lit), pattern.not_followed_by)

\* the parts of the alternatives of prog_lang_pattern: a literal, an optional
\* literal (x?), one or more whitespace characters (\s+)
Lit(s) == [part |-> "lit", s |-> s]

Opt(s) == [part |-> "opt", s |-> s]

Ws1 == [part |-> "ws", s |-> <<>>]

\* (programming languages?|languages?|coded?\s+in|built\s+with|using|experience\s+with)
prog_lang_keywords ==
    << << Lit(<<"p", "r", "o", "g", "r", "a", "m", "m", "i", "n", "g", " ",
               "l", "a", "n", "g", "u", "a", "g", "e">>), Opt(<<"s">>) >>,
       << Lit(<<"l", "a", "n", "g", "u", "a", "g", "e">>), Opt(<<"s">>) >>,
       << Lit(<<"c", "o", "d", "e">>), Opt(<<"d">>), Ws1, Lit(<<"i", "n">>) >>,
       << Lit(<<"b", "u", "i", "l", "t">>), Ws1, Lit(<<"w", "i", "t", "h">>) >>,
       << Lit(<<"u", "s", "i", "n", "g">>) >>,
       << Lit(<<"e", "x", "p", "e", "r", "i", "e", "n", "c", "e">>), Ws1,
          Lit(<<"w", "i", "t", "h">>) >> >>

\* the offset at which the longest run of characters of chars from offset k ends
run_end(text, k, chars) ==
    CHOOSE j \in k..Len(text) :
        /\ \A i \in (k + 1)..j : text[i] \in chars
        /\ j = Len(text) \/ text[j + 1] \notin chars

\* the offset after the parts matched from offset k on, -1 when they do not match
match_parts(text, k, parts) ==
    LET at[n \in 0..Len(parts)] ==
            IF n = 0 THEN k
            ELSE LET j == at[n - 1]
                 IN  IF j < 0 THEN -1
                     ELSE IF parts[n].part = "lit"
                          THEN IF literal_at(text, j, parts[n].s) THEN j + Len(parts[n].s) ELSE -1
                     ELSE IF parts[n].part = "opt"
                          THEN IF literal_at(text, j, parts[n].s) THEN j + Len(parts[n].s) ELSE j
                     ELSE IF run_end(text, j, WhitespaceChars) > j
                          THEN run_end(text, j, WhitespaceChars) ELSE -1
    IN  at[Len(parts)]

\* the offset after a keyword of prog_lang_pattern that starts at offset k
keyword_end(text, k) ==
    IF ~ word_boundary(text, k) THEN -1
    ELSE IF \E a \in DOMAIN prog_lang_keywords : match_parts(text, k, prog_lang_keywords[a]) >= 0
    THEN match_parts(text, k,
            prog_lang_keywords[CHOOSE a \in DOMAIN prog_lang_keywords :
                                    match_parts(text, k, prog_lang_keywords[a]) >= 0])
    ELSE -1

\* where the second group starts after a keyword that ended at offset e:
\* \s*:?\s* is skipped
lang_text_start(text, e) ==
    LET a == run_end(text, e, WhitespaceChars)
        b == IF literal_at(text, a, <<":">>) THEN a + 1 ELSE a
    IN  run_end(text, b, WhitespaceChars)

\* where the second group of a match that starts at offset k starts and ends
group_start(text, k) == lang_text_start(text, keyword_end(text, k))

group_end(text, k) == run_end(text, group_start(text, k), LangTextChars)

\* the offsets at which prog_lang_pattern matches with more than whitespace in
\* its second group
match_starts(text) ==
    {k \in 0..Len(text) : keyword_end(text, k) >= 0 /\ group_end(text, k) > group_start(text, k)}

\* the first of the offsets from k on
next_start(starts, k) == CHOOSE j \in starts : j >= k /\ \A i \in starts : i >= k => j <= i

\* the second groups of the matches found from left to right without overlap
groups_from(text, starts) ==
    LET from[k \in 0..Len(text)] ==
            IF \A j \in starts : j < k THEN <<>>
            ELSE <<SubSeq(text, group_start(text, next_start(starts, k)) + 1,
                                group_end(text, next_start(starts, k)))>>
                    \o from[group_end(text, next_start(starts, k))]
    IN  from[0]

\* the second groups of re.findall(prog_lang_pattern, text) that hold more than
\* whitespace.  (A match whose group is whitespace alone has no skill in it and
\* hides no later match that has one.)
lang_texts(text) == groups_from(text, match_starts(text))

\* the skills of the table found in a text and not yet in extracted_skills, in
\* the order of the table (lines 618-621 and 628-631)
found_skills(text, extracted_skills) ==
    LET hits == SelectSeq(skill_patterns,
                    LAMBDA p : re_search(p, text) /\ ~ list_contains(extracted_skills, p.skill))
    IN  [i \in DOMAIN hits |-> hits[i].skill]

\* [:30], lines 536 and 633
limit_skills(skills) == list_prefix(skills, 30)

\* lines 628-631: the skills of a language list are added to the list
add_found(extracted_skills, lang_text) ==
    extracted_skills \o found_skills(lang_text, extracted_skills)

\* lines 614-633 on the lowered text and the language lists found in it
skills_in(text_lower, matches) ==
    LET after[n \in 0..Len(matches)] ==
            IF n = 0 THEN found_skills(text_lower, <<>>)
            ELSE add_found(after[n - 1], matches[n])
    IN  limit_skills(after[Len(matches)])

skills_in_lowered(text_lower) == skills_in(text_lower, lang_texts(text_lower))

\* lines 549-633 (SubSeq lays the lowered text down as a tuple once)
extract_skills_fallback(text) == skills_in_lowered(SubSeq(str_lower(text), 1, Len(text)))

\* s.strip()
str_strip(s) ==
    LET inked == {i \in DOMAIN s : s[i] \notin WhitespaceChars}
    IN  IF inked = {} THEN <<>>
        ELSE SubSeq(s, CHOOSE i \in inked : \A j \in inked : i <= j,
                       CHOOSE i \in inked : \A j \in inked : i >= j)

\* s.replace(' ', '-')
spaces_to_hyphens(s) == [i \in DOMAIN s |-> IF s[i] = " " THEN "-" ELSE s[i]]

\* line 532
normalized_skill(skill) == spaces_to_hyphens(str_lower(str_strip(skill)))

\* a plausible slip: a skill is appended whether or not it is in the list
cleaned_skills_repeating(skills) ==
    LET strs == SelectSeq(skills, LAMBDA x : x.type = "str" /\ str_strip(x.v) # <<>>)
    IN  [i \in DOMAIN strs |-> normalized_skill(strs[i].v)]

\* the loop of lines 528-534 over the items of extracted_skills: the names of
\* the items that are non-blank strs, each at the place where it comes first
cleaned_skills(skills) ==
    LET strs == SelectSeq(skills, LAMBDA x : x.type = "str" /\ str_strip(x.v) # <<>>)
        normalized == [i \in DOMAIN strs |-> normalized_skill(strs[i].v)]
        appended == {i \in DOMAIN normalized : \A j \in 1..(i - 1) : normalized[j] # normalized[i]}
    IN  [n \in 1..Cardinality(appended) |->
            normalized[CHOOSE i \in appended : Cardinality({j \in appended : j <= i}) = n]]

\* lines 524-547 on the value got under extracted_skills, or the error of
\* getting it
agent1_on_parsed(s, reply, got) ==
    IF got.error \in {"JSONDecodeError", "KeyError"}
    THEN [raises |-> FALSE,
          state |-> dict_set(s, "extracted_skills",
                             JList(extract_skills_fallback(dict_get(s, "input", <<>>)))),
          events |-> <<Event("agent1", "start"), Invoked("agent1", reply),
                       Event("agent1", "fallback"), Event("agent1", "return")>>]
    ELSE IF got.error # "none" \/ ~ iterable(got.value)
    THEN [raises |-> TRUE, state |-> s,
          events |-> <<Event("agent1", "start"), Invoked("agent1", reply)>>]
    ELSE [raises |-> FALSE,
          state |-> dict_set(s, "extracted_skills",
                             JList(limit_skills(cleaned_skills(items_of(got.value))))),
          events |-> <<Event("agent1", "start"), Invoked("agent1", reply),
                       Event("agent1", "return")>>]

\* the stage on state s for a reply of the service: the service is called
\* outside the try (line 513); JSONDecodeError and KeyError lead to the pattern
\* matching, any other exception leaves the stage
agent1_outcome(s, reply) ==
    IF reply.kind = "raises"
    THEN [raises |-> TRUE, state |-> s,
          events |-> <<Event("agent1", "start"), Invoked("agent1", reply)>>]
    ELSE agent1_on_parsed(s, reply,
            json_get(json_loads(strip_code_fences(reply.content)),
                     "extracted_skills", JList(<<>>)))

\* replies of the service to the extraction prompt: the items under the key
\* extracted_skills are names with capitals, spaces around and inside, a tab
\* inside, repeats, blanks, and items that are no str
ListedSkills ==
    JList(<< JStr(<<" ", "G", "i", "t", " ">>),
             JStr(<<"S", "Q", "L">>),
             JStr(<<"g", "i", "t">>),
             JStr(<<"M", "a", "c", "h", "i", "n", "e", " ", "L", "e", "a", "r", "n", "i", "n", "g">>),
             JNum(5),
             JStr(<<" ", "\t">>),
             JStr(<<>>),
             JNull,
             JStr(<<"m", "a", "c", "h", "i", "n", "e", " ", "l", "e", "a", "r", "n", "i", "n", "g", "\n">>),
             JStr(<<"u", "n", "i", "t", "\t", "t", "e", "s", "t", "s">>),
             JStr(<<"s", "q", "l">>) >>)

\* 32 different two-letter names, the first of them once more at the end
ManySkills ==
    JList([i \in 1..33 |->
            JStr(<<LowerChars[(((i - 1) % 32) \div 8) + 1], LowerChars[((i - 1) % 8) + 1]>>)])

\* JSON documents: an object with the key extracted_skills, one without it, and
\* documents that are no object
ExtractionDocuments ==
    << JDict([extracted_skills |-> ListedSkills]),
       JDict([extracted_skills |-> ManySkills]),
       JDict([extracted_skills |-> JList(<<>>)]),
       JDict([extracted_skills |-> JStr(<<"g", "o">>)]),
       JDict([extracted_skills |-> JNum(5)]),
       JDict([extracted_skills |-> JNull]),
       JDict([skills |-> ListedSkills]),
       ListedSkills,
       JNull >>

ExtractionReplies ==
    <<InvokeRaises>>
    \o [i \in DOMAIN ExtractionDocuments |-> Message(<<Json(ExtractionDocuments[i])>>)]
    \o << Message(<<FenceJson, Json(JDict([extracted_skills |-> ListedSkills])), Fence>>),
          Message(<<Prose, Json(JDict([extracted_skills |-> ListedSkills]))>>),
          Message(<<Prose>>),
          Message(<<>>) >>

\* the stage as a node of the pipeline's graph
agent1_skill_extractor ==
    /\ pc = "agent1"
    /\ \E i \in DOMAIN ExtractionReplies :
        \E out \in {agent1_outcome(state, ExtractionReplies[i])} :
            /\ state' = out.state
            /\ log' = log \o out.events
            /\ pc' = IF out.raises THEN "raised" ELSE edge("agent1")
    /\ UNCHANGED <<request, response, call, result, profiler, curated, host>>

\* extract_skills_only (lines 717-750): a new profiler, the stage on a state of
\* the input alone; any exception of the stage is caught (line 743) and the
\* pattern matching answers.  total_time is a duration and left out
extract_skills_only ==
    /\ call # None
    /\ call.fn = "extract_skills_only"
    /\ result = None
    /\ \E i \in DOMAIN ExtractionReplies :
        \E started \in {start_timer(NewProfiler, "skill_extraction_only")},
           out \in {agent1_outcome([input |-> call.input_text], ExtractionReplies[i])} :
            IF out.raises
            THEN /\ profiler' = started
                 /\ log' = log \o out.events \o <<Event("extract_skills_only", "fallback")>>
                 /\ result' = [extracted_skills |-> JList(extract_skills_fallback(call.input_text)),
                               performance_summary |-> [cache_stats |-> [hit_ratio |-> Frac(0, 1)]]]
            ELSE /\ profiler' = end_timer(started, "skill_extraction_only")
                 /\ log' = log \o out.events
                 /\ result' = [extracted_skills |-> dict_get(out.state, "extracted_skills", JList(<<>>)),
                               performance_summary |->
                                    get_performance_report(end_timer(started, "skill_extraction_only"))]
    /\ UNCHANGED <<request, response, call, curated, host, state, pc>>


(***************************************************************************)
(* Gap analysis: agent2_gap_analyzer                                       *)
(***************************************************************************)
\* JOB_ROLES_DATA.get(role, []), lines 643 and 710
get_skills_for_role(role) ==
    LET hits == SelectSeq(JOB_ROLES_DATA, LAMBDA e : e.key = role)
    IN  IF hits = <<>> THEN <<>> ELSE hits[1].value

\* the prompt built (lines 646-675): with the curated required skills or not
Prompted(stage, curated_data_available) ==
    [stage |-> stage, event |-> "prompt", curated_data_available |-> curated_data_available]

\* a value of the reply as the state holds it: a list of strs is a list of
\* names, any other value stays what it is
as_skill_list(value) ==
    IF value.type = "list" /\ \A i \in DOMAIN value.v : value.v[i].type = "str"
    THEN JList([i \in DOMAIN value.v |-> value.v[i].v])
    ELSE value

\* the stage on state s for a reply of the service: the service is called
\* outside the try (line 678); JSONDecodeError and KeyError empty both lists,
\* any other exception leaves the stage.  The curated required skills enter
\* the prompt and nothing else
agent2_outcome(s, reply) ==
    LET target_role == dict_get(s, "target_role", "")
        curated_data_available == get_skills_for_role(target_role) # <<>>
        events == <<Event("agent2", "start"), Prompted("agent2", curated_data_available),
                    Invoked("agent2", reply)>>
    IN  IF reply.kind = "raises"
        THEN [raises |-> TRUE, state |-> s, events |-> events]
        ELSE
        LET parsed == json_loads(strip_code_fences(reply.content))
            missing_skills == json_get(parsed, "missing_skills", JList(<<>>))
            nice_to_have == json_get(parsed, "nice_to_have", JList(<<>>))
        IN  IF parsed.error \in {"JSONDecodeError", "KeyError"}
            THEN [raises |-> FALSE,
                  state |-> dict_set(dict_set(s, "missing_skills", JList(<<>>)),
                                     "nice_to_have", JList(<<>>)),
                  events |-> events \o <<Event("agent2", "fallback"), Event("agent2", "return")>>]
            ELSE IF missing_skills.error # "none"
            THEN [raises |-> TRUE, state |-> s, events |-> events]
            ELSE [raises |-> FALSE,
                  state |-> dict_set(dict_set(s, "missing_skills", as_skill_list(missing_skills.value)),
                                     "nice_to_have", as_skill_list(nice_to_have.value)),
                  events |-> Append(events, Event("agent2", "return"))]

\* a job_roles.json: the required skills of two roles
SampleRoles ==
    << Entry("DevOps Engineer", <<s_docker, s_kubernetes, s_ci_cd, s_git>>),
       Entry("Data Scientist", <<s_python, s_sql>>) >>

\* a JSON list of names
name_list(skills) == JList([i \in DOMAIN skills |-> JStr(skills[i])])

ElevenSkills ==
    <<s_figma, s_jira, s_html, s_css, s_tableau, s_redis, s_python, s_sql, s_docker, s_aws, s_bash>>

\* JSON documents: objects with both lists, with one, with none, with values
\* that are no lists, and documents that are no object
GapDocuments ==
    << JDict([missing_skills |-> name_list(<<s_docker, s_kubernetes, s_ci_cd>>),
              nice_to_have |-> name_list(<<s_aws>>)]),
       JDict([missing_skills |-> name_list(<<s_python>>), nice_to_have |-> name_list(<<>>)]),
       JDict([missing_skills |-> name_list(<<s_react, s_docker>>), nice_to_have |-> name_list(<<s_jira>>)]),
       JDict([missing_skills |-> name_list(<<s_git>>), nice_to_have |-> name_list(ElevenSkills)]),
       JDict([missing_skills |-> name_list(<<>>), nice_to_have |-> name_list(<<>>)]),
       JDict([missing_skills |-> name_list(<<s_docker>>)]),
       JDict([gaps |-> name_list(<<s_docker>>)]),
       JDict([missing_skills |-> JNull, nice_to_have |-> JNum(3)]),
       name_list(<<s_docker>>),
       JNull,
       JStr(<<"o", "k">>) >>

GapReplies ==
    <<InvokeRaises>>
    \o [i \in DOMAIN GapDocuments |-> Message(<<Json(GapDocuments[i])>>)]
    \o << Message(<<FenceJson, Json(GapDocuments[1]), Fence>>),
          Message(<<Prose, Json(GapDocuments[1])>>),
          Message(<<Prose>>),
          Message(<<>>) >>

\* the stage as a node of the pipeline's graph
agent2_gap_analyzer ==
    /\ pc = "agent2"
    /\ \E i \in DOMAIN GapReplies :
        \E out \in {agent2_outcome(state, GapReplies[i])} :
            /\ state' = out.state
            /\ log' = log \o out.events
            /\ pc' = IF out.raises THEN "raised" ELSE edge("agent2")
    /\ UNCHANGED <<request, response, call, result, profiler, curated, host>>


(***************************************************************************)
(* The pipeline: run_pipeline_optimized                                    *)
(***************************************************************************)
\* lines 752-787: the profiler is replaced and times 'pipeline_total', the
\* graph is compiled and entered with the initial state
run_pipeline_optimized ==
    /\ call # None
    /\ call.fn = "run_pipeline_optimized"
    /\ pc = "idle"
    /\ result = None
    /\ profiler' = start_timer(NewProfiler, "pipeline_total")
    /\ state' = [input |-> call.input_text, target_role |-> call.target_role]
    /\ pc' = entry_point
    /\ log' = <<>>
    /\ UNCHANGED <<request, response, call, result, curated, host>>

\* lines 787-802: app.invoke has returned the final state; the timer is ended
\* and the report is put into the result
run_pipeline_optimized_return ==
    /\ call # None
    /\ call.fn = "run_pipeline_optimized"
    /\ pc = "END"
    /\ profiler' = end_timer(profiler, "pipeline_total")
    /\ result' = dict_set(state, "performance_summary",
                          get_performance_report(end_timer(profiler, "pipeline_total")))
    /\ pc' = "returned"
    /\ UNCHANGED <<request, response, call, curated, host, state, log>>


(***************************************************************************)
(* Sessions: the upload, manual-session and extract-skills handlers of     *)
(* src/backend/app.py.  File names, session ids and texts are character    *)
(* sequences; a file is what a reader of its format finds in it            *)
(***************************************************************************)
File(format, parts) == [format |-> format, parts |-> parts]

\* s.endswith(suffix)
str_endswith(s, suffix) ==
    /\ Len(s) >= Len(suffix)
    /\ SubSeq(s, Len(s) - Len(suffix) + 1, Len(s)) = suffix

DecimalDigits == <<"0", "1", "2", "3", "4", "5", "6", "7", "8", "9">>

\* str(n) of an int n >= 0, as the f-strings format it
RECURSIVE int_str(_)
int_str(n) ==
    IF n < 10 THEN <<DecimalDigits[n + 1]>>
    ELSE int_str(n \div 10) \o <<DecimalDigits[(n % 10) + 1]>>

\* sep.join(parts)
RECURSIVE str_join(_, _)
str_join(sep, parts) ==
    IF parts = <<>> THEN <<>>
    ELSE IF Len(parts) = 1 THEN parts[1]
    ELSE parts[1] \o sep \o str_join(sep, Tail(parts))

\* s.split(): the maximal runs of characters that are no whitespace
str_split(s) ==
    LET inked(i) == s[i] \notin WhitespaceChars
        starts == {i \in DOMAIN s : inked(i) /\ (i = 1 \/ ~ inked(i - 1))}
        ends == {i \in DOMAIN s : inked(i) /\ (i = Len(s) \/ ~ inked(i + 1))}
        nth(S, n) == CHOOSE i \in S : Cardinality({k \in S : k <= i}) = n
    IN  [n \in 1..Cardinality(starts) |-> SubSeq(s, nth(starts, n), nth(ends, n))]

dot_pdf == <<".", "p", "d", "f">>

dot_docx == <<".", "d", "o", "c", "x">>

dot_txt == <<".", "t", "x", "t">>

\* a plausible slip: what the bytes hold is returned although the reader raised
extract_text_from_pdf_unchecked(file) ==
    str_join(<<>>, [i \in DOMAIN file.parts |->
                        IF file.parts[i].type = "str" THEN file.parts[i].v ELSE <<>>])

\* lines 427-438: the text of the pages (page.extract_text() is a str or None,
\* and None counts as ''), or '' when the reader raises
extract_text_from_pdf(file) ==
    IF file.format # "pdf" THEN <<>>
    ELSE str_join(<<>>, [i \in DOMAIN file.parts |->
                            IF file.parts[i].type = "str" THEN file.parts[i].v ELSE <<>>])

\* lines 440-448: the paragraphs joined by newlines, or '' when the reader raises
extract_text_from_docx(file) ==
    IF file.format # "docx" THEN <<>>
    ELSE str_join(<<"\n">>, [i \in DOMAIN file.parts |-> file.parts[i].v])

\* f"session_{int(time.time())}", line 481
upload_session_id(now) == <<"s", "e", "s", "s", "i", "o", "n", "_">> \o int_str(now)

\* f"manual_session_{int(time.time())}", line 529
manual_session_id(now) == <<"m", "a", "n", "u", "a", "l", "_", "s", "e", "s", "s", "i", "o", "n", "_">> \o int_str(now)

\* os.path.join(UPLOADS_DIR, f"{session_id}.txt"): the name inside the directory
session_file_of(session_id) == session_id \o dot_txt

\* f.read() of a session file
read_text(file) == file.parts[1]

\* the text of line 526
manual_resume_text(skills_list) ==
    <<"M", "a", "n", "u", "a", "l", " ", "s", "k", "i", "l", "l", "s",
      " ", "e", "n", "t", "r", "y", ":", "\n", "S", "k", "i", "l", "l", "s", ":", " ">>
        \o str_join(<<",", " ">>, skills_list)
        \o <<"\n", "E", "x", "p", "e", "r", "i", "e", "n", "c", "e", ":", " ", "U", "s", "e", "r",
      " ", "p", "r", "o", "v", "i", "d", "e", "d", " ", "s", "k", "i", "l", "l", "s", " ", "m", "a", "n", "u", "a", "l", "l", "y", ".">>

Created(session_id) == [status |-> 200, success |-> TRUE, session_id |-> session_id]

\* POST /upload-resume, lines 455-486
upload_resume ==
    /\ request # None
    /\ request.endpoint = "/upload-resume"
    /\ response = None
    /\ IF request.resume = None
       THEN response' = Error(400, "No file uploaded") /\ UNCHANGED uploads
       ELSE IF request.resume.filename = <<>>
       THEN response' = Error(400, "No file selected") /\ UNCHANGED uploads
       ELSE IF ~ (\/ str_endswith(str_lower(request.resume.filename), dot_pdf)
                  \/ str_endswith(str_lower(request.resume.filename), dot_docx))
       THEN response' = Error(400, "Unsupported file type") /\ UNCHANGED uploads
       ELSE \E saved \in {dict_set(uploads, request.resume.filename, request.resume.file)},
               resume_text \in
                   {IF str_endswith(str_lower(request.resume.filename), dot_pdf)
                    THEN extract_text_from_pdf(request.resume.file)
                    ELSE extract_text_from_docx(request.resume.file)} :
                IF str_strip(resume_text) = <<>>
                THEN /\ response' = Error(500, "Could not extract text from resume")
                     /\ uploads' = saved
                ELSE /\ uploads' = dict_set(saved, session_file_of(upload_session_id(clock)),
                                            File("txt", <<resume_text>>))
                     /\ response' = Created(upload_session_id(clock))
    /\ UNCHANGED <<request, call, result, profiler, curated, run, clock, peer>>

\* lines 516-523 on the value of 'skills' (None: the key is absent)
manual_skills_list(skills_input) ==
    IF skills_input = None THEN <<>>
    ELSE IF skills_input.type = "str"
         THEN [i \in DOMAIN str_split(skills_input.v) |-> JStr(str_split(skills_input.v)[i])]
    ELSE IF skills_input.type = "list" THEN skills_input.v
    ELSE <<>>

\* POST /create-manual-session, lines 512-538; ', '.join raises on a list item
\* that is no str, and Flask answers the exception with 500
create_manual_session ==
    /\ request # None
    /\ request.endpoint = "/create-manual-session"
    /\ response = None
    /\ \E skills_list \in {manual_skills_list(request.skills)} :
        IF \E i \in DOMAIN skills_list : skills_list[i].type # "str"
        THEN response' = Error(500, "exception") /\ UNCHANGED uploads
        ELSE /\ uploads' = dict_set(uploads, session_file_of(manual_session_id(clock)),
                                    File("txt", <<manual_resume_text(
                                        [i \in DOMAIN skills_list |-> skills_list[i].v])>>))
             /\ response' = [status |-> 200, success |-> TRUE,
                             session_id |-> manual_session_id(clock),
                             skills |-> skills_list]
    /\ UNCHANGED <<request, call, result, profiler, curated, run, clock, peer>>

\* "not session_id": the key is absent or the body is no JSON (null), or the
\* id is ''
no_session_id(session_id) == ~ truthy(session_id)

\* POST /extract-skills, lines 488-499: the checks, then the call of
\* extract_skills_only on the text of the session file
extract_skills ==
    /\ request # None
    /\ request.endpoint = "/extract-skills"
    /\ response = None
    /\ call = None
    /\ IF no_session_id(request.session_id)
       THEN response' = Error(400, "No session ID provided") /\ UNCHANGED call
       ELSE IF session_file_of(request.session_id.v) \notin DOMAIN uploads
       THEN response' = Error(404, "Session file not found") /\ UNCHANGED call
       ELSE /\ call' = [fn |-> "extract_skills_only",
                        input_text |->
                            read_text(uploads[session_file_of(request.session_id.v)])]
            /\ UNCHANGED response
    /\ UNCHANGED <<request, result, profiler, curated, run, host>>

\* lines 501-510: extract_skills_only has returned; the logger is not part of
\* the sources: its call either returns or raises, and the handler answers 500
\* when it raises
extract_skills_respond ==
    /\ request # None
    /\ request.endpoint = "/extract-skills"
    /\ response = None
    /\ call # None
    /\ call.fn = "extract_skills_only"
    /\ result # None
    /\ \E logger_raises \in BOOLEAN :
        response' = IF logger_raises THEN Error(500, "exception")
                    ELSE [status |-> 200, success |-> TRUE,
                          skills |-> result.extracted_skills]
    /\ UNCHANGED <<request, call, result, profiler, curated, run, host>>

\* time passes: the clock of time.time() reaches the next second
MaxClock == 1

tick ==
    /\ clock < MaxClock
    /\ clock' = clock + 1
    /\ UNCHANGED <<request, response, call, result, profiler, curated, run, uploads, peer>>


(***************************************************************************)
(* POST /generate-roadmap: src/backend/app.py, lines 1197-1362             *)
(***************************************************************************)
\* lines 1197-1220: the checks, then the call of run_pipeline_optimized on the
\* text of the session file and the role.  The 'skills' of the body are read
\* at line 1200 and not used
generate_roadmap ==
    /\ request # None
    /\ request.endpoint = "/generate-roadmap"
    /\ response = None
    /\ call = None
    /\ IF request.role = ""
       THEN response' = Error(400, "No role selected") /\ UNCHANGED call
       ELSE IF no_session_id(request.session_id)
       THEN response' = Error(400, "No session ID provided") /\ UNCHANGED call
       ELSE IF session_file_of(request.session_id.v) \notin DOMAIN uploads
       THEN response' = Error(404, "Session file not found") /\ UNCHANGED call
       ELSE /\ call' = [fn |-> "run_pipeline_optimized",
                        input_text |->
                            read_text(uploads[session_file_of(request.session_id.v)]),
                        target_role |-> request.role]
            /\ UNCHANGED response
    /\ UNCHANGED <<request, result, profiler, curated, run, host>>

\* f'Skill {j+1}' and f'Phase {i+1}', with j and i counting from 1 here
default_skill_name(j) == <<"S", "k", "i", "l", "l", " ">> \o int_str(j)

default_phase_name(i) == <<"P", "h", "a", "s", "e", " ">> \o int_str(i)

\* est_hours of a listed step that is a bare string, line 1278
listed_string_hours == 10

\* lines 1267-1319: the entry of the response for the j-th item of a phase (the
\* course texts of parse_course_info are left out)
listed_step(item, j) ==
    IF item.type = "str"
    THEN [skill |-> item.v, est_hours |-> listed_string_hours]
    ELSE [skill |-> dict_get(item.v, "skill", default_skill_name(j)),
          est_hours |-> dict_get(item.v, "est_hours", 10)]

\* the loop of lines 1264-1319: items that are neither str nor dict are passed over
listed_steps(skills_data) ==
    LET kept == {j \in DOMAIN skills_data : skills_data[j].type \in {"str", "dict"}}
    IN  [n \in 1..Cardinality(kept) |->
            LET j == CHOOSE k \in kept : Cardinality({m \in kept : m <= k}) = n
            IN  listed_step(skills_data[j], j)]

\* lines 1256-1263 on the i-th phase, a dict
phase_data_of(phase, i) ==
    [phase |-> dict_get(phase, "phase", default_phase_name(i)),
     skills |-> listed_steps(dict_get(phase, "skills", dict_get(phase, "items", <<>>))),
     phase_total_hours |-> dict_get(phase, "phase_total_hours", 0),
     phase_time_frame |-> dict_get(phase, "phase_time_frame", None)]

\* lines 1236-1358 on the dict run_pipeline_optimized returned; generation_time
\* is a duration and left out
roadmap_response(pipeline_result) ==
    LET roadmap_data == dict_get(pipeline_result, "roadmap", JList(<<>>)).v
        performance_summary == pipeline_result.performance_summary
        time_estimates == dict_get(pipeline_result, "time_estimates", <<>>)
    IN  [status |-> 200, success |-> TRUE,
         roadmap |-> [i \in DOMAIN roadmap_data |-> phase_data_of(roadmap_data[i], i)],
         time_estimates |->
            [overall_total_hours |-> dict_get(time_estimates, "overall_total_hours", 0),
             overall_buffered_hours |-> dict_get(time_estimates, "overall_buffered_hours", 0),
             overall_time_frame |-> dict_get(time_estimates, "overall_time_frame", None),
             weekly_hours |-> dict_get(time_estimates, "weekly_hours", 8)],
         performance |->
            [cache_hit_ratio |-> performance_summary.cache_stats.hit_ratio,
             step_timings |-> performance_summary.step_timings]]

\* lines 1220-1362: the run has returned its result, or ended with an
\* exception, which line 1360 answers with 500
generate_roadmap_respond ==
    /\ request # None
    /\ request.endpoint = "/generate-roadmap"
    /\ response = None
    /\ call # None
    /\ call.fn = "run_pipeline_optimized"
    /\ pc \in {"returned", "raised"}
    /\ response' = IF pc = "raised" THEN Error(500, "exception")
                   ELSE roadmap_response(result)
    /\ UNCHANGED <<request, call, result, profiler, curated, run, host>>


(***************************************************************************)
(* The server over several requests                                        *)
(***************************************************************************)
\* the text of a resume
ResumeText == <<"g", "i", "t", " ", "a", "n", "d", " ", "s", "q", "l">>

cv_pdf == <<"c", "v", ".", "p", "d", "f">>

cv_DOCX == <<"c", "v", ".", "D", "O", "C", "X">>

notes_txt == <<"n", "o", "t", "e", "s", ".", "t", "x", "t">>

\* a PDF of two pages, the second without text
PdfOfResume == File("pdf", <<JStr(ResumeText), JNull>>)

\* a scanned PDF: no page has text
PdfOfScans == File("pdf", <<JNull, JStr(<<" ", "\n">>)>>)

\* a document of two paragraphs
DocxOfSkills == File("docx", <<JStr(s_sql), JStr(s_java)>>)

\* multipart bodies of POST /upload-resume: no file, no file name, another
\* type, PDFs with and without text, a document under both extensions (the
\* PDF reader raises on it)
UploadRequests ==
    {[endpoint |-> "/upload-resume", resume |-> None]}
    \cup {[endpoint |-> "/upload-resume", resume |-> [filename |-> fn, file |-> f]] :
            fn \in {<<>>, notes_txt}, f \in {PdfOfResume}}
    \cup {[endpoint |-> "/upload-resume", resume |-> [filename |-> cv_pdf, file |-> f]] :
            f \in {PdfOfResume, PdfOfScans, DocxOfSkills}}
    \cup {[endpoint |-> "/upload-resume", resume |-> [filename |-> cv_DOCX, file |-> f]] :
            f \in {DocxOfSkills}}

\* bodies of POST /create-manual-session: no skills, a string, a list with an
\* item that is no str, a number
ManualRequests ==
    {[endpoint |-> "/create-manual-session", skills |-> u] :
        u \in {None, JStr(<<"g", "i", "t", " ", " ", "s", "q", "l">>),
               JList(<<JStr(s_git), JNum(3)>>), JNum(5)}}

\* ids a client may send: none, an empty one, ids of sessions the server may
\* have created, an id no request was given
ExtractRequests ==
    {[endpoint |-> "/extract-skills", session_id |-> JStr(id)] :
        id \in {<<>>, upload_session_id(0), manual_session_id(0), upload_session_id(7)}}
    \cup {[endpoint |-> "/extract-skills", session_id |-> JNull]}

SessionRoadmapRequests ==
    {[endpoint |-> "/generate-roadmap", skills |-> <<>>, role |-> "DevOps Engineer",
      session_id |-> JStr(id)] : id \in {upload_session_id(0), upload_session_id(7)}}

\* Flask hands the next request to its handler once the one before is answered;
\* the locals of the handler before are gone, the module-level profiler stays
receive_request ==
    /\ request = None \/ response # None
    /\ request' \in UploadRequests \cup ManualRequests \cup ExtractRequests
                        \cup SessionRoadmapRequests
    /\ response' = None
    /\ call' = None
    /\ result' = None
    /\ state' = None
    /\ pc' = "idle"
    /\ log' = <<>>
    /\ UNCHANGED <<profiler, curated, host>>


(***************************************************************************)
(* One call after another: the callers of src/backend/app.py (lines 504    *)
(* and 1220) and the two runs of the module's own script (lines 823-836)   *)
(***************************************************************************)
RunCalls ==
    {[fn |-> "run_pipeline_optimized", input_text |-> ResumeText,
      target_role |-> "DevOps Engineer"],
     [fn |-> "extract_skills_only", input_text |-> ResumeText]}

\* the call before has returned or raised; its locals are gone, the
\* module-level profiler is as that call left it
next_call ==
    /\ call # None
    /\ \/ pc \in {"returned", "raised"}
       \/ call.fn = "extract_skills_only" /\ result # None
    /\ call' \in RunCalls
    /\ result' = None
    /\ state' = None
    /\ pc' = "idle"
    /\ log' = <<>>
    /\ UNCHANGED <<request, response, profiler, curated, host>>


(***************************************************************************)
(* Two requests at a time: app.run (src/backend/app.py, line 1366) serves  *)
(* each request on a thread of its own, and the threads share the module-  *)
(* level profiler.  The second thread is inside extract_skills_only, whose *)
(* only uses of the profiler are lines 722-724 and 735                     *)
(***************************************************************************)
\* lines 721-724 on the other thread: the global profiler is replaced and the
\* timer of the extraction is started
peer_extract_skills_only ==
    /\ peer = "idle"
    /\ profiler' = start_timer(NewProfiler, "skill_extraction_only")
    /\ peer' = "agent1"
    /\ UNCHANGED <<request, response, call, result, curated, run, uploads, clock>>

\* the stage of the other thread has returned and line 735 ends the timer, on
\* the profiler that the name denotes now; or the stage raised and line 743
\* catches the exception
peer_extract_skills_only_return ==
    /\ peer = "agent1"
    /\ \E raised \in BOOLEAN :
        profiler' = IF raised THEN profiler ELSE end_timer(profiler, "skill_extraction_only")
    /\ peer' = "idle"
    /\ UNCHANGED <<request, response, call, result, curated, run, uploads, clock>>

(***************************************************************************)
(* Requests served by the readiness endpoints                              *)
(***************************************************************************)
MaxUserSkills == 2

MaxOmitted == 1

\* spellings a client may send for a skill
UserVocab == {s_git, s_Git, s_ci_cd, s_CI_CD, s_sql}

SeqsUpTo(S, n) == UNION {[1..k -> S] : k \in 0..n}

ShortSkillLists == SeqsUpTo(UserVocab, MaxUserSkills)

\* xs without the entries at the indices in drop
WithoutIndices(xs, drop) ==
    LET keep(i) == i \notin drop
        F[i \in 0..Len(xs)] ==
            IF i = 0 THEN <<>>
            ELSE IF keep(i) THEN Append(F[i - 1], xs[i]) ELSE F[i - 1]
    IN  F[Len(xs)]

ProfileSkillNames(p) ==
    LET all == p.core_technical_skills \o p.other_technical_skills \o p.soft_skills
    IN  [i \in DOMAIN all |-> all[i].skill]

\* a candidate holding all skills of the devops profile but a few
NearCompleteSkillLists ==
    LET names == ProfileSkillNames(DevopsProfile)
    IN  {WithoutIndices(names, drop) :
            drop \in {d \in SUBSET DOMAIN names : Cardinality(d) <= MaxOmitted}}

UserSkillLists == ShortSkillLists \cup NearCompleteSkillLists

\* required-skill lists a client may send inside role_profile
ReqLists ==
    { <<>>,
      << Req(s_git, 3, 6) >>,
      << Req(s_git, 3, 6), Req(s_sql, 2, 6) >>,
      << Req(s_ci_cd, 3, 6), Req(s_sql, 2, 6), Req(s_linux, 2, 6) >> }

RequestProfiles ==
    {[core_technical_skills |-> c, other_technical_skills |-> o, soft_skills |-> s] :
        c \in ReqLists, o \in ReqLists, s \in ReqLists} \cup {None}

EvaluateRequests ==
    {[endpoint |-> "/evaluate-industry-readiness", target_role |-> r,
      extracted_skills |-> u, role_profile |-> p] :
        r \in {"", "devops-engineer"}, u \in ShortSkillLists, p \in RequestProfiles}

AssessRequests ==
    {[endpoint |-> "/assess-target-role-readiness", target_role |-> r, skills |-> u] :
        r \in {"", "devops-engineer", "florist"}, u \in UserSkillLists}

InitReadiness ==
    /\ NoUploads
    /\ \/ request \in EvaluateRequests
       \/ request \in AssessRequests
    /\ response = None
    /\ call = None
    /\ result = None
    /\ profiler = NewProfiler
    /\ NoCuratedData
    /\ NoRun

NextReadiness == evaluate_industry_readiness \/ assess_target_role_readiness

SpecReadiness == InitReadiness /\ [][NextReadiness]_vars

(***************************************************************************)
(* Properties of the readiness scorer                                      *)
(***************************************************************************)
Scored == response # None /\ response.success /\ response.evaluation # None

\* the skill list and the role profile the scored request was evaluated against
ScoredSkills ==
    IF request.endpoint = "/evaluate-industry-readiness"
    THEN request.extracted_skills ELSE request.skills

ScoredProfile ==
    IF request.endpoint = "/evaluate-industry-readiness"
    THEN request.role_profile ELSE get_role_profile(request.target_role)

\* C1: the overall score of either endpoint is 0.6*core + 0.3*other + 0.1*soft of
\* the three category scores of the request's skills against the profile's lists
C1_OverallIsWeightedSum ==
    Scored =>
        LET e == response.evaluation
            c == calculate_skill_category_score(ScoredSkills, ScoredProfile.core_technical_skills)
            o == calculate_skill_category_score(ScoredSkills, ScoredProfile.other_technical_skills)
            s == calculate_skill_category_score(ScoredSkills, ScoredProfile.soft_skills)
        IN  /\ e.core_score = c /\ e.other_score = o /\ e.soft_score = s
            /\ 10 * e.overall_score.num * (c.den * o.den * s.den)
                 = e.overall_score.den * (6 * c.num * o.den * s.den
                                          + 3 * o.num * c.den * s.den
                                          + 1 * s.num * c.den * o.den)

\* both endpoints scored a request whose three categories differ
C1_Witness ==
    /\ Scored
    /\ ~ FracEq(response.evaluation.core_score, response.evaluation.other_score)
    /\ ~ FracEq(response.evaluation.other_score, response.evaluation.soft_score)
    /\ response.evaluation.soft_score.num > 0

\* C2: the level is decided by the overall score alone: Ready from 0.8 up,
\* Workable from 0.6 up to but excluding 0.8, Needs foundation below 0.6
C2_LevelByThresholds ==
    Scored =>
        LET e == response.evaluation
            n == 10 * e.overall_score.num
            d == e.overall_score.den
        IN  /\ e.readiness_level \in {"Ready / Strong fit",
                                      "Workable with targeted upskilling",
                                      "Needs foundation"}
            /\ (e.readiness_level = "Ready / Strong fit") <=> (n >= 8 * d)
            /\ (e.readiness_level = "Workable with targeted upskilling")
                    <=> (n >= 6 * d /\ n < 8 * d)
            /\ (e.readiness_level = "Needs foundation") <=> (n < 6 * d)

\* a score of exactly 0.8 was classified Ready
C2_Witness ==
    /\ Scored
    /\ 10 * response.evaluation.overall_score.num = 8 * response.evaluation.overall_score.den
    /\ response.evaluation.readiness_level = "Ready / Strong fit"

\* a score of exactly 0.6 was classified Workable
C2_WitnessLower ==
    /\ Scored
    /\ 10 * response.evaluation.overall_score.num = 6 * response.evaluation.overall_score.den
    /\ response.evaluation.readiness_level = "Workable with targeted upskilling"

\* the scores a skill list A gets against the scored profile
ScoresOf(A) ==
    LET c == calculate_skill_category_score(A, ScoredProfile.core_technical_skills)
        o == calculate_skill_category_score(A, ScoredProfile.other_technical_skills)
        s == calculate_skill_category_score(A, ScoredProfile.soft_skills)
    IN  [core_score |-> c, other_score |-> o, soft_score |-> s,
         overall_score |-> weighted_sum(c, o, s, 6, 3, 1)]

\* C3: every skill list whose skills all occur in the scored list gets category
\* scores and an overall score no higher than the scored list's
C3_Monotone ==
    Scored =>
        \A A \in UserSkillLists :
            Range(A) \subseteq Range(ScoredSkills) =>
                LET a == ScoresOf(A)
                    e == response.evaluation
                IN  /\ FracLeq(a.core_score, e.core_score)
                    /\ FracLeq(a.other_score, e.other_score)
                    /\ FracLeq(a.soft_score, e.soft_score)
                    /\ FracLeq(a.overall_score, e.overall_score)

\* the scored list has a proper sub-list with a strictly lower overall score
C3_Witness ==
    /\ Scored
    /\ \E A \in UserSkillLists :
        /\ Range(A) \subseteq Range(ScoredSkills)
        /\ Range(A) # Range(ScoredSkills)
        /\ A # <<>>
        /\ ~ FracLeq(response.evaluation.overall_score, ScoresOf(A).overall_score)

\* the claim's normal form of a name: '-' and '_' dropped, then lowercased
Canon(s) == str_lower(SelectSeq(s, LAMBDA ch : ch \notin {"-", "_"}))

Matched(user_skills, required_skills) ==
    {i \in DOMAIN required_skills :
        \E j \in DOMAIN user_skills : Canon(user_skills[j]) = Canon(required_skills[i].skill)}

CategoryScoreAsClaimed(score, user_skills, required_skills) ==
    /\ required_skills = <<>> => score.num = 0
    /\ required_skills # <<>> =>
        /\ score.num = Cardinality(Matched(user_skills, required_skills))
        /\ score.den = Len(required_skills)
    /\ score.den > 0
    /\ 0 <= score.num /\ score.num <= score.den

\* C4: each category score is matched / required (0 for an empty list) and lies
\* in [0,1], and so does the overall score
C4_CategoryScore ==
    Scored =>
        LET e == response.evaluation
        IN  /\ CategoryScoreAsClaimed(e.core_score, ScoredSkills,
                                      ScoredProfile.core_technical_skills)
            /\ CategoryScoreAsClaimed(e.other_score, ScoredSkills,
                                      ScoredProfile.other_technical_skills)
            /\ CategoryScoreAsClaimed(e.soft_score, ScoredSkills,
                                      ScoredProfile.soft_skills)
            /\ e.overall_score.den > 0
            /\ 0 <= e.overall_score.num /\ e.overall_score.num <= e.overall_score.den

\* a skill spelled CI_CD matched the required ci-cd, next to an empty category
C4_Witness ==
    /\ Scored
    /\ list_contains(ScoredSkills, s_CI_CD)
    /\ ~ list_contains(ScoredSkills, s_ci_cd)
    /\ ScoredProfile.core_technical_skills # <<>>
    /\ ScoredProfile.soft_skills = <<>>
    /\ response.evaluation.core_score.num > 0
    /\ response.evaluation.core_score.num < response.evaluation.core_score.den
    /\ \E i \in DOMAIN ScoredProfile.core_technical_skills :
            ScoredProfile.core_technical_skills[i].skill = s_ci_cd

(***************************************************************************)
(* Calls of get_priority_skills                                            *)
(***************************************************************************)
MaxMissing == 10

MaxNice == 5

MaxCount == 10

MissingPool ==
    <<s_python, s_sql, s_docker, s_aws, s_git, s_excel, s_linux, s_bash, s_java, s_react>>

NicePool == <<s_figma, s_jira, s_html, s_css, s_tableau, s_redis>>

\* the first n skills of a pool, the pool repeating when n exceeds it
TakeFrom(pool, n) == [i \in 1..n |-> pool[((i - 1) % Len(pool)) + 1]]

PriorityCalls ==
    {[fn |-> "get_priority_skills", missing_skills |-> TakeFrom(MissingPool, m),
      nice_to_have |-> TakeFrom(NicePool, n), max_count |-> k] :
        m \in 0..MaxMissing, n \in 0..MaxNice, k \in 0..MaxCount}

InitPriority ==
    /\ NoUploads
    /\ request = None
    /\ response = None
    /\ call \in PriorityCalls
    /\ result = None
    /\ profiler = NewProfiler
    /\ NoCuratedData
    /\ NoRun

NextPriority == call_get_priority_skills

SpecPriority == InitPriority /\ [][NextPriority]_vars

(***************************************************************************)
(* Properties of get_priority_skills                                       *)
(***************************************************************************)
Trimmed == call # None /\ call.fn = "get_priority_skills" /\ result # None

TrimmedOver ==
    Trimmed /\ Len(call.missing_skills) + Len(call.nice_to_have) > call.max_count

\* the example: 10 missing skills, 1 nice-to-have skill, max 8
IsExampleCall ==
    /\ call.missing_skills = MissingPool
    /\ call.nice_to_have = <<s_figma>>
    /\ call.max_count = 8

\* C5 as claimed: for the example the result is the first 6 missing skills and
\* the one nice-to-have skill
C5_AsClaimed ==
    (Trimmed /\ IsExampleCall) =>
        /\ result.missing = SubSeq(MissingPool, 1, 6)
        /\ result.nice = <<s_figma>>

\* C5 amended: for the example the result is the first 7 missing skills and the
\* one nice-to-have skill
C5_ExampleKeepsSeven ==
    (Trimmed /\ IsExampleCall) =>
        /\ result.missing = SubSeq(MissingPool, 1, 7)
        /\ result.nice = <<s_figma>>

C5_Witness == Trimmed /\ IsExampleCall

\* the claim's quota, with round(0.6 * max) (no 0.6 * max ends in .5)
ClaimedQuota(lm, ln, k) ==
    LET rounded == (6 * k + 5) \div 10
        share == IF rounded > k - ln THEN rounded ELSE k - ln
    IN  IF lm < share THEN lm ELSE share

\* the quota the code computes, with int(0.6 * max) = floor(0.6 * max)
FloorQuota(lm, ln, k) ==
    LET floored == (6 * k - ((6 * k) % 10)) \div 10
        share == IF floored > k - ln THEN floored ELSE k - ln
    IN  IF lm < share THEN lm ELSE share

KeepsQuota(q) ==
    /\ result.missing = SubSeq(call.missing_skills, 1, q)
    /\ result.nice = SubSeq(call.nice_to_have, 1, call.max_count - q)

\* C6 as claimed: over the maximum, the first min(|missing|, max(round(0.6*max),
\* max - |nice|)) missing skills and the rest of the maximum from nice-to-have
C6_AsClaimed ==
    TrimmedOver =>
        KeepsQuota(ClaimedQuota(Len(call.missing_skills), Len(call.nice_to_have),
                                call.max_count))

\* what get_priority_skills does instead: the same with floor(0.6*max)
TrimsByFloorQuota ==
    TrimmedOver =>
        KeepsQuota(FloorQuota(Len(call.missing_skills), Len(call.nice_to_have),
                              call.max_count))

\* max 8, 6 missing and 5 nice-to-have skills: 4 and 4 are kept, half of the
\* maximum for the missing skills
TrimsExampleToFourAndFour ==
    /\ TrimmedOver
    /\ call.max_count = 8
    /\ Len(call.missing_skills) = 6
    /\ Len(call.nice_to_have) = 5
    /\ Len(result.missing) = 4
    /\ Len(result.nice) = 4

IsPrefix(xs, ys) == Len(xs) <= Len(ys) /\ \A i \in DOMAIN xs : xs[i] = ys[i]

\* C7: the results are prefixes of the inputs with at most max_count skills in
\* all; inputs within the maximum come back unchanged, larger ones are cut to
\* exactly max_count
C7_PrefixesWithinMax ==
    Trimmed =>
        /\ IsPrefix(result.missing, call.missing_skills)
        /\ IsPrefix(result.nice, call.nice_to_have)
        /\ Len(result.missing) + Len(result.nice) <= call.max_count
        /\ ~ TrimmedOver =>
            /\ result.missing = call.missing_skills
            /\ result.nice = call.nice_to_have
        /\ TrimmedOver => Len(result.missing) + Len(result.nice) = call.max_count

\* fewer missing skills than 60% of the maximum, the rest filled from nice-to-have
C7_Witness ==
    /\ TrimmedOver
    /\ Len(call.missing_skills) > 0
    /\ Len(result.missing) = Len(call.missing_skills)
    /\ Len(result.missing) < (6 * call.max_count) \div 10
    /\ Len(result.nice) < Len(call.nice_to_have)
    /\ Len(result.nice) > 0

(***************************************************************************)
(* Calls of calculate_time_estimates                                       *)
(***************************************************************************)
MaxPhases == 2

MaxTotalSteps == 5

MaxHours == 110

\* steps as the generation service may return them: with est_hours, without
\* (docker is backfilled to 12), and as a bare string
StepChoices ==
    { JDict([skill |-> s_python, est_hours |-> 7]),
      JDict([skill |-> s_docker]),
      JStr(s_git) }

\* the shape of a phase: its number of steps, NoSkillsKey for a phase dict
\* without the skills key, NotADict for an entry that is no dict
NoSkillsKey == -1

NotADict == -2

StepCount(shape) == IF shape > 0 THEN shape ELSE 0

\* the steps of the first n phases of a sequence of shapes
StepsBefore(shapes, n) ==
    LET F[i \in 0..Len(shapes)] == IF i = 0 THEN 0 ELSE F[i - 1] + StepCount(shapes[i])
    IN  F[n]

\* at most MaxPhases phases with at most MaxTotalSteps steps in all
RoadmapShapes ==
    {shapes \in UNION {[1..k -> NotADict..MaxTotalSteps] : k \in 0..MaxPhases} :
        StepsBefore(shapes, Len(shapes)) <= MaxTotalSteps}

\* the roadmap of the given shapes whose steps, in order, are those of steps
RoadmapOf(shapes, steps) ==
    [p \in DOMAIN shapes |->
        IF shapes[p] = NotADict THEN JStr(<<"x">>)
        ELSE IF shapes[p] = NoSkillsKey THEN JDict([phase |-> "Phase"])
        ELSE JDict([phase |-> "Phase",
                    skills |-> SubSeq(steps, StepsBefore(shapes, p - 1) + 1,
                                      StepsBefore(shapes, p))])]

\* a roadmap of one step that carries h hours
SingleStepRoadmap(h) ==
    <<JDict([phase |-> "Phase", skills |-> <<JDict([skill |-> s_python, est_hours |-> h])>>])>>

\* weekly_hours: omitted, an int, a bool (with its int value), or a value that
\* is no int
WeeklyHoursArgs ==
    {[type |-> "none"], [type |-> "float"], [type |-> "str"]}
    \cup {[type |-> "int", v |-> w] : w \in {-1, 0, 1, 5}}
    \cup {[type |-> "bool", v |-> b] : b \in {0, 1}}

TimeCall(roadmap, weekly_hours) ==
    [fn |-> "calculate_time_estimates", roadmap |-> roadmap, weekly_hours |-> weekly_hours]

InitTime ==
    /\ NoUploads
    /\ request = None
    /\ response = None
    /\ \/ \E shapes \in RoadmapShapes :
            \E steps \in [1..StepsBefore(shapes, Len(shapes)) -> StepChoices] :
                call = TimeCall(RoadmapOf(shapes, steps), [type |-> "int", v |-> 5])
       \/ \E h \in 0..MaxHours, w \in WeeklyHoursArgs :
                call = TimeCall(SingleStepRoadmap(h), w)
    /\ result = None
    /\ profiler = NewProfiler
    /\ NoCuratedData
    /\ NoRun

NextTime == call_calculate_time_estimates

SpecTime == InitTime /\ [][NextTime]_vars

(***************************************************************************)
(* Properties of calculate_time_estimates                                  *)
(***************************************************************************)
Estimated == call # None /\ call.fn = "calculate_time_estimates" /\ result # None

\* the steps a phase of the result lists
StepsOf(phase) == IF "skills" \in DOMAIN phase THEN phase.skills ELSE <<>>

\* the steps of a list that carry est_hours
HourSteps(steps) == {i \in DOMAIN steps : steps[i].type = "dict" /\ "est_hours" \in DOMAIN steps[i].v}

RECURSIVE SumHours(_, _)
SumHours(steps, idx) ==
    IF idx = {} THEN 0
    ELSE LET i == CHOOSE j \in idx : TRUE
         IN  steps[i].v.est_hours + SumHours(steps, idx \ {i})

RECURSIVE SumPhaseTotals(_, _)
SumPhaseTotals(phases, idx) ==
    IF idx = {} THEN 0
    ELSE LET i == CHOOSE j \in idx : TRUE
         IN  phases[i].phase_total_hours + SumPhaseTotals(phases, idx \ {i})

\* C8: each phase total is the sum of est_hours over the phase's steps, every
\* dict step of the result carries est_hours, and the overall total is the sum
\* of the phase totals
C8_TotalsAreSums ==
    Estimated =>
        /\ \A p \in DOMAIN result.phases :
            LET steps == StepsOf(result.phases[p])
            IN  /\ \A i \in DOMAIN steps :
                        steps[i].type = "dict" => "est_hours" \in DOMAIN steps[i].v
                /\ result.phases[p].phase_total_hours = SumHours(steps, HourSteps(steps))
        /\ result.overall_total_hours = SumPhaseTotals(result.phases, DOMAIN result.phases)

\* two phases, one of them with a backfilled step next to a step that came with
\* its hours
C8_Witness ==
    /\ Estimated
    /\ Len(result.phases) = 2
    /\ result.phases[1].phase_total_hours > 0
    /\ result.phases[2].phase_total_hours > 0
    /\ \E p \in DOMAIN call.roadmap :
        /\ call.roadmap[p].type = "dict"
        /\ \E i, j \in DOMAIN StepsOf(call.roadmap[p].v) :
            /\ StepsOf(call.roadmap[p].v)[i] = JDict([skill |-> s_docker, est_hours |-> 12])
            /\ StepsOf(call.roadmap[p].v)[j] = JDict([skill |-> s_python, est_hours |-> 7])

\* C9: the buffered hours are floor(total * 110 / 100) and never below the total
C9_BufferedHours ==
    Estimated =>
        LET t == result.overall_total_hours
            b == result.overall_buffered_hours
        IN  /\ 100 * b <= 110 * t
            /\ 110 * t < 100 * (b + 1)
            /\ b >= t
            /\ (t = 0 => b = 0) /\ (t = 10 => b = 11)
            /\ (t = 37 => b = 40) /\ (t = 100 => b = 110)

\* a total of 37 hours was buffered to 40
C9_Witness ==
    Estimated /\ result.overall_total_hours = 37 /\ result.overall_buffered_hours = 40

\* w is the ceiling of h / per_week
IsCeiling(w, h, per_week) == (w - 1) * per_week < h /\ h <= w * per_week

\* C10: the weeks of every phase and the buffered weeks are ceilings of the hours
\* over the weekly hours in effect; a phase has an effective estimate exactly when
\* it lists more than 2 steps, of floor(total * 85 / 100) hours and the ceiling of
\* that in weeks
C10_WeeksAreCeilings ==
    Estimated =>
        LET wh == result.weekly_hours
        IN  /\ wh >= 1
            /\ IsCeiling(result.overall_time_frame.buffered_weeks,
                         result.overall_buffered_hours, wh)
            /\ \A p \in DOMAIN result.phases :
                LET phase == result.phases[p]
                    tf == phase.phase_time_frame
                IN  /\ tf.hours = phase.phase_total_hours
                    /\ tf.weekly_hours = wh
                    /\ IsCeiling(tf.weeks, phase.phase_total_hours, wh)
                    /\ (tf.effective # None) <=> (Len(StepsOf(phase)) > 2)
                    /\ tf.effective # None =>
                        /\ 100 * tf.effective.hours <= 85 * phase.phase_total_hours
                        /\ 85 * phase.phase_total_hours < 100 * (tf.effective.hours + 1)
                        /\ IsCeiling(tf.effective.weeks, tf.effective.hours, wh)

\* a phase of three steps whose hours are no multiple of the weekly hours, next
\* to a phase of two steps, which has no effective estimate
C10_Witness ==
    /\ Estimated
    /\ result.weekly_hours = 5
    /\ \E p, q \in DOMAIN result.phases :
        /\ Len(StepsOf(result.phases[p])) = 3
        /\ result.phases[p].phase_total_hours % 5 # 0
        /\ result.phases[p].phase_time_frame.effective # None
        /\ result.phases[p].phase_time_frame.effective.hours % 5 # 0
        /\ Len(StepsOf(result.phases[q])) = 2
        /\ result.phases[q].phase_total_hours % 5 # 0
        /\ result.phases[q].phase_time_frame.effective = None

\* what the claim says of weekly_hours: the supplied positive integer, else 8
ClaimedWeeklyHours(w) == IF w.type = "int" /\ w.v >= 1 THEN w.v ELSE default_weekly_hours

\* C11 as stated: the weekly hours in effect are the supplied positive integer,
\* and the default 8 when omitted, no integer, zero or negative
C11_AsClaimed ==
    Estimated => result.weekly_hours = ClaimedWeeklyHours(call.weekly_hours)

\* C11: the weekly hours used for every week count and reported in the result
\* are the supplied value when it is an integer of at least 1, 1 when it is an
\* integer below 1 or a bool, and the default 8 when it is omitted or no int
C11_WeeklyHoursInEffect ==
    Estimated =>
        LET w == call.weekly_hours
            wh == result.weekly_hours
        IN  /\ (w.type = "int" /\ w.v >= 1) => wh = w.v
            /\ (w.type = "int" /\ w.v < 1) => wh = 1
            /\ w.type = "bool" => wh = 1
            /\ w.type \notin {"int", "bool"} => wh = default_weekly_hours
            /\ result.overall_time_frame.weekly_hours = wh
            /\ IsCeiling(result.overall_time_frame.buffered_weeks,
                         result.overall_buffered_hours, wh)
            /\ \A p \in DOMAIN result.phases :
                /\ result.phases[p].phase_time_frame.weekly_hours = wh
                /\ IsCeiling(result.phases[p].phase_time_frame.weeks,
                             result.phases[p].phase_total_hours, wh)

\* a call with weekly_hours = 0 was estimated at 1 hour a week: 7 hours take
\* 7 weeks
C11_Witness ==
    /\ Estimated
    /\ call.weekly_hours = [type |-> "int", v |-> 0]
    /\ result.weekly_hours = 1
    /\ result.overall_total_hours = 7
    /\ result.phases[1].phase_time_frame.weeks = 7

(***************************************************************************)
(* Calls of generate_fallback_roadmap                                      *)
(***************************************************************************)
MaxFallbackMissing == 7

MaxFallbackNice == 3

\* skill lists with a repeated skill
RepeatingSkillLists == {<<s_git, s_git>>, <<s_docker, s_git, s_docker>>}

FallbackCalls ==
    {[fn |-> "generate_fallback_roadmap", missing_skills |-> ms, nice_to_have |-> TakeFrom(NicePool, n)] :
        ms \in {TakeFrom(MissingPool, m) : m \in 0..MaxFallbackMissing} \cup RepeatingSkillLists,
        n \in 0..MaxFallbackNice}

InitFallback ==
    /\ NoUploads
    /\ request = None
    /\ response = None
    /\ call \in FallbackCalls
    /\ result = None
    /\ profiler = NewProfiler
    /\ JOB_ROLES_DATA = <<>>
    /\ COURSES_DATA \in {<<>>, SampleCourses}
    /\ NoRun

NextFallback == call_generate_fallback_roadmap

SpecFallback == InitFallback /\ [][NextFallback]_vars

(***************************************************************************)
(* Properties of generate_fallback_roadmap                                 *)
(***************************************************************************)
FellBack == call # None /\ call.fn = "generate_fallback_roadmap" /\ result # None

\* the skills the steps of a roadmap name, phase after phase
RECURSIVE StepSkills(_)
StepSkills(roadmap) ==
    IF roadmap = <<>> THEN <<>>
    ELSE [k \in DOMAIN Head(roadmap).v.skills |-> Head(roadmap).v.skills[k].v.skill]
            \o StepSkills(Tail(roadmap))

\* C12: the fallback roadmap has min(3, n) phases for n input skills (missing
\* followed by nice-to-have), none of them empty; all phases but the last have
\* max(1, n div 3) steps; the steps of the phases, in order, name the input
\* skills, each once and in input order
C12_FallbackPartition ==
    FellBack =>
        LET all_skills == call.missing_skills \o call.nice_to_have
            n == Len(all_skills)
            size == IF n \div 3 >= 1 THEN n \div 3 ELSE 1
        IN  /\ Len(result.v) = (IF n < 3 THEN n ELSE 3)
            /\ \A p \in DOMAIN result.v :
                /\ result.v[p].v.skills # <<>>
                /\ (p < Len(result.v) \/ n < 3) => Len(result.v[p].v.skills) = size
            /\ n >= 3 => Len(result.v[3].v.skills) = n - 2 * size
            /\ StepSkills(result.v) = all_skills

\* eight skills fell back to phases of 2, 2 and 4 steps
C12_Witness ==
    /\ FellBack
    /\ Len(call.missing_skills) = 7 /\ Len(call.nice_to_have) = 1
    /\ Len(result.v) = 3
    /\ Len(result.v[1].v.skills) = 2
    /\ Len(result.v[2].v.skills) = 2
    /\ Len(result.v[3].v.skills) = 4

\* two skills fell back to two phases of one step
C12_WitnessShort ==
    /\ FellBack
    /\ Len(call.missing_skills) + Len(call.nice_to_have) = 2
    /\ Len(result.v) = 2

(***************************************************************************)
(* The roadmap stage on the states gap analysis can leave                  *)
(***************************************************************************)
MaxStageMissing == 9

MaxStageNice == 2

\* states with lists of skill names in both fields
StageState(missing_skills, nice_to_have) ==
    [input |-> ResumeText, target_role |-> "DevOps Engineer",
     extracted_skills |-> JList(<<s_git, s_sql>>),
     missing_skills |-> JList(missing_skills), nice_to_have |-> JList(nice_to_have)]

\* the example of three missing skills
GitDockerKubernetes == <<s_git, s_docker, s_kubernetes>>

InitRoadmap ==
    /\ NoUploads
    /\ request = None
    /\ response = None
    /\ call = None
    /\ result = None
    /\ profiler = NewProfiler
    /\ JOB_ROLES_DATA = <<>>
    /\ COURSES_DATA \in {<<>>, SampleCourses}
    /\ \/ \E m \in 0..MaxStageMissing, n \in 0..MaxStageNice :
            state = StageState(TakeFrom(MissingPool, m), TakeFrom(NicePool, n))
       \/ state = StageState(GitDockerKubernetes, <<>>)
    /\ pc = "agent3"
    /\ log = <<>>

NextRoadmap == agent3_roadmap_mentor_optimized

SpecRoadmap == InitRoadmap /\ [][NextRoadmap]_vars

(***************************************************************************)
(* Properties of the roadmap stage                                         *)
(***************************************************************************)
\* the reply the roadmap stage got from the service
RoadmapReply ==
    log[CHOOSE i \in DOMAIN log : log[i].stage = "agent3" /\ log[i].event = "invoke"].reply

RoadmapBuilt == pc = "END" /\ "roadmap" \in DOMAIN state

FellBackInStage == \E i \in DOMAIN log : log[i].stage = "agent3" /\ log[i].event = "fallback"

\* the phases the service generated that the stage kept (its dict entries)
GeneratedPhases ==
    SelectSeq(as_roadmap(parse_llm_response(RoadmapReply.content).value),
              LAMBDA phase : phase.type = "dict")

\* the skill a step names: a bare string names itself
SkillOf(step) == IF step.type = "dict" THEN dict_get(step.v, "skill", <<>>) ELSE step.v

CarriesHours(step) == step.type = "dict" /\ "est_hours" \in DOMAIN step.v

\* the table of estimate_skill_hours
HoursTable ==
    /\ \A k \in LanguageKeywords : estimate_skill_hours(k) = 15
    /\ \A k \in DatabaseKeywords : estimate_skill_hours(k) = 12
    /\ \A k \in CloudKeywords : estimate_skill_hours(k) = 10
    /\ \A k \in DataScienceKeywords : estimate_skill_hours(k) = 18
    /\ \A k \in ToolKeywords : estimate_skill_hours(k) = 6
    /\ \A k \in WebKeywords : estimate_skill_hours(k) = 8
    /\ estimate_skill_hours(s_problem_solving) = 10
    /\ estimate_skill_hours(<<>>) = 10
    /\ estimate_skill_hours(s_docker) = 12 /\ estimate_skill_hours(s_kubernetes) = 12
    /\ estimate_skill_hours(s_git) = 6 /\ estimate_skill_hours(s_Git) = 6

\* C13 as stated: in the roadmap the stage returns, every step of the fallback
\* roadmap and every generated step that came without est_hours carries
\* est_hours = estimate_skill_hours(skill), a generated step that came with
\* est_hours keeps it, and estimate_skill_hours returns the table values
C13_AsClaimed ==
    RoadmapBuilt =>
        /\ HoursTable
        /\ \A p \in DOMAIN state.roadmap.v :
            LET steps == StepsOf(state.roadmap.v[p])
            IN  \A i \in DOMAIN steps :
                    IF ~ FellBackInStage /\ CarriesHours(StepsOf(GeneratedPhases[p].v)[i])
                    THEN steps[i] = StepsOf(GeneratedPhases[p].v)[i]
                    ELSE /\ CarriesHours(steps[i])
                         /\ steps[i].v.est_hours = estimate_skill_hours(SkillOf(steps[i]))

\* the skills the stage trimmed its state's lists to
StagePriority ==
    get_priority_skills(state.missing_skills.v, state.nice_to_have.v, max_gaps_to_process)

\* the reply holds a roadmap the stage can use: a document that parses into an
\* object whose roadmap is a list with at least one phase
UsableReply(reply) ==
    /\ reply.kind = "message"
    /\ LET parsed == parse_llm_response(reply.content)
       IN  parsed.error = "none" /\ parsed.value.type = "list" /\ parsed.value.v # <<>>

\* C14 as stated: for every reply of the service the roadmap stage raises
\* nothing and returns a state with a roadmap list and time_estimates, which
\* are those of the fallback roadmap whenever the reply holds no usable roadmap
C14_AsClaimed ==
    /\ pc # "raised"
    /\ pc = "END" =>
        /\ "roadmap" \in DOMAIN state /\ state.roadmap.type = "list"
        /\ "time_estimates" \in DOMAIN state
        /\ ~ UsableReply(RoadmapReply) =>
            state.roadmap.v =
                calculate_time_estimates(
                    generate_fallback_roadmap(StagePriority.missing, StagePriority.nice),
                    [type |-> "none"]).phases

(***************************************************************************)
(* Skill extraction: the stage and extract_skills_only on resume texts     *)
(***************************************************************************)
\* a language named after the word using, with a digit behind it
UsingJava8 == <<"u", "s", "i", "n", "g", " ", "j", "a", "v", "a", "8">>

\* skills named in another order than the table lists them
SqlThenPython ==
    <<"S", "Q", "L", ",", " ", "t", "h", "e", "n", " ", "P", "y", "t", "h",
      "o", "n", ";", " ", "J", "a", "v", "a", "S", "c", "r", "i", "p", "t">>

\* language lists after two keywords
BuiltWith ==
    <<"B", "u", "i", "l", "t", " ", "w", "i", "t", "h", ":", " ", "R", "e",
      "a", "c", "t", ",", " ", "N", "o", "d", "e", ".", "j", "s", " ", "a",
      "n", "d", " ", "C", "+", "+", ".", "\n", "C", "o", "d", "e", "d", " ",
      "i", "n", " ", "G", "o">>

\* 33 skills of the table, the last entries first
LongResume ==
    <<"S", "t", "a", "c", "k", ":", " ", "p", "h", "o", "t", "o", "s", "h",
      "o", "p", ",", " ", "f", "i", "g", "m", "a", ",", " ", "s", "l", "a",
      "c", "k", ",", " ", "c", "o", "n", "f", "l", "u", "e", "n", "c", "e",
      ",", " ", "j", "i", "r", "a", ",", " ", "p", "o", "w", "e", "r", "s",
      "h", "e", "l", "l", ",", " ", "b", "a", "s", "h", ",", " ", "m", "a",
      "c", "o", "s", ",", " ", "w", "i", "n", "d", "o", "w", "s", ",", " ",
      "l", "i", "n", "u", "x", ",", " ", "j", "u", "p", "y", "t", "e", "r",
      ",", " ", "e", "x", "c", "e", "l", ",", " ", "p", "o", "w", "e", "r",
      " ", "b", "i", ",", " ", "t", "a", "b", "l", "e", "a", "u", ",", " ",
      "d", "e", "e", "p", " ", "l", "e", "a", "r", "n", "i", "n", "g", ",",
      " ", "d", "a", "t", "a", " ", "s", "c", "i", "e", "n", "c", "e", ",",
      " ", "m", "a", "c", "h", "i", "n", "e", " ", "l", "e", "a", "r", "n",
      "i", "n", "g", ",", " ", "p", "y", "t", "o", "r", "c", "h", ",", " ",
      "t", "e", "n", "s", "o", "r", "f", "l", "o", "w", ",", " ", "s", "c",
      "i", "k", "i", "t", "-", "l", "e", "a", "r", "n", ",", " ", "n", "u",
      "m", "p", "y", ",", " ", "p", "a", "n", "d", "a", "s", ",", " ", "x",
      "m", "l", ",", " ", "j", "s", "o", "n", ",", " ", "g", "r", "a", "p",
      "h", "q", "l", ",", " ", "r", "e", "s", "t", ",", " ", "n", "o", "s",
      "q", "l", ",", " ", "s", "q", "l", ",", " ", "s", "a", "s", "s", ",",
      " ", "t", "a", "i", "l", "w", "i", "n", "d", ",", " ", "b", "o", "o",
      "t", "s", "t", "r", "a", "p", ",", " ", "c", "s", "s", ",", " ", "h",
      "t", "m", "l">>

ExtractionTexts ==
    <<ResumeText, <<>>, UsingJava8, SqlThenPython, BuiltWith, LongResume>>

InitExtraction ==
    /\ NoUploads
    /\ request = None
    /\ response = None
    /\ result = None
    /\ profiler = NewProfiler
    /\ NoCuratedData
    /\ log = <<>>
    /\ \E t \in DOMAIN ExtractionTexts :
        \/ /\ call = None
           /\ state = [input |-> ExtractionTexts[t], target_role |-> "DevOps Engineer"]
           /\ pc = "agent1"
        \/ /\ call = [fn |-> "extract_skills_only", input_text |-> ExtractionTexts[t]]
           /\ state = None
           /\ pc = "idle"

NextExtraction == agent1_skill_extractor \/ extract_skills_only

SpecExtraction == InitExtraction /\ [][NextExtraction]_vars

\* the stage or extract_skills_only has produced a skill list
Extracted ==
    \/ pc \notin {"idle", "agent1", "raised"}
    \/ result # None /\ call # None /\ call.fn = "extract_skills_only"

ExtractedSkills == IF result # None THEN result.extracted_skills.v ELSE state.extracted_skills.v

\* the reply the extraction got, and whether its skills were used
ExtractionReply == log[CHOOSE i \in DOMAIN log : log[i].event = "invoke"].reply

PatternMatched == \E i \in DOMAIN log : log[i].event = "fallback"

\* the names a reply lists, cleaned, repeats included, in the order of the reply
NamesListed ==
    LET listed == items_of(json_get(json_loads(strip_code_fences(ExtractionReply.content)),
                                    "extracted_skills", JList(<<>>)).value)
        names == SelectSeq(listed, LAMBDA x : x.type = "str" /\ str_strip(x.v) # <<>>)
    IN  [i \in DOMAIN names |-> spaces_to_hyphens(str_lower(str_strip(names[i].v)))]

\* the skills of the table the pattern matching comes across, repeats included:
\* those in the whole text, then those in each language list
SkillsMatched ==
    LET text == IF call # None THEN call.input_text ELSE state.input
        text_lower == SubSeq(str_lower(text), 1, Len(text))
        scans == <<text_lower>> \o lang_texts(text_lower)
        hits(scan) == SelectSeq(skill_patterns, LAMBDA p : re_search(p, scan))
        upto[n \in 0..Len(scans)] ==
            IF n = 0 THEN <<>>
            ELSE LET found == hits(scans[n])
                 IN  upto[n - 1] \o [i \in DOMAIN found |-> found[i].skill]
    IN  upto[Len(scans)]

FirstOccurrence(xs, x) == CHOOSE i \in DOMAIN xs : xs[i] = x /\ \A j \in 1..(i - 1) : xs[j] # x

\* out lists names of found without repeats, in the order of their first
\* occurrence, and leaves out only what comes after 30 names
FirstOccurrencesOf(out, found) ==
    /\ \A i \in DOMAIN out : \E k \in DOMAIN found : found[k] = out[i]
    /\ \A i, j \in DOMAIN out :
        i < j => FirstOccurrence(found, out[i]) < FirstOccurrence(found, out[j])
    /\ \A k \in DOMAIN found :
        (\A i \in DOMAIN out : out[i] # found[k])
            => /\ Len(out) = 30
               /\ \A i \in DOMAIN out : FirstOccurrence(found, out[i]) < k

C20_WitnessPatterns ==
    /\ Extracted
    /\ PatternMatched
    /\ Len(SkillsMatched) > 30
    /\ Len(ExtractedSkills) = 30

(***************************************************************************)
(* Gap analysis: the stage on states with extracted skills                 *)
(***************************************************************************)
\* skill lists as the extraction leaves them
ExtractedSkillLists ==
    << <<>>, <<s_git, s_sql>>, <<s_git, str_lower(s_CI_CD)>>,
       <<s_docker, s_kubernetes, s_ci_cd, s_git>>, <<s_python>> >>

TargetRoles == {"DevOps Engineer", "Data Scientist", "Game Designer"}

InitGap ==
    /\ NoUploads
    /\ request = None
    /\ response = None
    /\ call = None
    /\ result = None
    /\ profiler = NewProfiler
    /\ JOB_ROLES_DATA \in {<<>>, SampleRoles}
    /\ COURSES_DATA = <<>>
    /\ \E u \in DOMAIN ExtractedSkillLists, role \in TargetRoles :
        state = [input |-> ResumeText, target_role |-> role,
                 extracted_skills |-> JList(ExtractedSkillLists[u])]
    /\ pc = "agent2"
    /\ log = <<>>

NextGap == agent2_gap_analyzer

SpecGap == InitGap /\ [][NextGap]_vars

\* what the log tells of the gap analysis
GapReturned == \E i \in DOMAIN log : log[i] = Event("agent2", "return")

GapRaised == pc = "raised" /\ log # <<>> /\ log[Len(log)].stage = "agent2"

GapReply == log[CHOOSE i \in DOMAIN log : log[i].stage = "agent2" /\ log[i].event = "invoke"].reply

\* the reply carries a JSON object whose two lists, where present, are lists
CarriesTheLists(reply) ==
    /\ reply.kind = "message"
    /\ LET parsed == json_loads(strip_code_fences(reply.content))
       IN  /\ parsed.error = "none"
           /\ parsed.value.type = "dict"
           /\ \A key \in {"missing_skills", "nice_to_have"} \cap DOMAIN parsed.value.v :
                parsed.value.v[key].type = "list"

\* C17 as claimed: the stage never raises, and on a reply that is no object
\* with the lists it returns with both lists empty
C17_AsClaimed ==
    /\ ~ GapRaised
    /\ GapReturned /\ ~ CarriesTheLists(GapReply)
        => /\ state.missing_skills = JList(<<>>)
           /\ state.nice_to_have = JList(<<>>)

\* the required skills the user lacks, names compared in lower case without
\* '-' and '_'
RequiredAndLacking ==
    {r \in Range(get_skills_for_role(state.target_role)) :
        \A i \in DOMAIN state.extracted_skills.v :
            normalize_skill(state.extracted_skills.v[i]) # normalize_skill(r)}

\* C18 as claimed: with curated required skills for the target role, the
\* missing_skills of the stage are the required skills the user lacks
C18_AsClaimed ==
    GapReturned /\ get_skills_for_role(state.target_role) # <<>>
        => /\ state.missing_skills.type = "list"
           /\ Range(state.missing_skills.v) = RequiredAndLacking

\* C19 as claimed: the stage leaves at most 10 entries in nice_to_have
C19_AsClaimed ==
    GapReturned /\ state.nice_to_have.type = "list" => Len(state.nice_to_have.v) <= 10

(***************************************************************************)
(* The pipeline on resume texts and target roles                           *)
(***************************************************************************)
PipelineTexts == <<ResumeText, UsingJava8>>

InitPipeline ==
    /\ NoUploads
    /\ request = None
    /\ response = None
    /\ result = None
    /\ profiler = NewProfiler
    /\ JOB_ROLES_DATA \in {<<>>, SampleRoles}
    /\ COURSES_DATA = SampleCourses
    /\ \E t \in DOMAIN PipelineTexts :
        call = [fn |-> "run_pipeline_optimized", input_text |-> PipelineTexts[t],
                target_role |-> "DevOps Engineer"]
    /\ NoRun

NextPipeline ==
    \/ run_pipeline_optimized
    \/ agent1_skill_extractor
    \/ agent2_gap_analyzer
    \/ agent3_roadmap_mentor_optimized
    \/ run_pipeline_optimized_return

SpecPipeline == InitPipeline /\ [][NextPipeline]_vars

Stages == <<"agent1", "agent2", "agent3">>

\* where in the log a stage started, and where it returned
Starts(stage) == {i \in DOMAIN log : log[i] = Event(stage, "start")}

Returns(stage) == {i \in DOMAIN log : log[i] = Event(stage, "return")}

\* C15: in a run of run_pipeline_optimized no stage starts twice; gap analysis
\* starts only after extraction has returned and the roadmap stage only after
\* gap analysis has returned; a stage's events lie between its start and its
\* return; and a run that returns a result has started and finished each of
\* the three stages exactly once
C15_StagesInSequence ==
    /\ \A n \in DOMAIN Stages :
        /\ Cardinality(Starts(Stages[n])) <= 1
        /\ Cardinality(Returns(Stages[n])) <= Cardinality(Starts(Stages[n]))
        /\ \A i \in DOMAIN log :
            log[i].stage = Stages[n]
                => /\ \E s \in Starts(Stages[n]) : s <= i
                   /\ \A r \in Returns(Stages[n]) : i <= r
    /\ \A n \in 2..Len(Stages) :
        \A s \in Starts(Stages[n]) : \E r \in Returns(Stages[n - 1]) : r < s
    /\ pc = "returned"
        => /\ result # None
           /\ \A n \in DOMAIN Stages :
                Cardinality(Starts(Stages[n])) = 1 /\ Cardinality(Returns(Stages[n])) = 1

\* a run has returned its result after the three stages
C15_Witness ==
    /\ pc = "returned"
    /\ "performance_summary" \in DOMAIN result
    /\ "roadmap" \in DOMAIN result
    /\ Returns("agent1") # {} /\ Returns("agent2") # {} /\ Returns("agent3") # {}

\* the reply the extraction stage of the run got
PipelineExtractionReply ==
    log[CHOOSE i \in DOMAIN log : log[i].stage = "agent1" /\ log[i].event = "invoke"].reply

\* the call of the service raised, or its reply is no JSON
ExtractionFailed ==
    /\ \E i \in DOMAIN log : log[i].stage = "agent1" /\ log[i].event = "invoke"
    /\ \/ PipelineExtractionReply.kind = "raises"
       \/ json_loads(strip_code_fences(PipelineExtractionReply.content)).error # "none"

\* C16 as claimed: when the extraction fails, the run does not end with an
\* exception, and the stage leaves the skills the pattern matching finds in
\* the input
C16_AsClaimed ==
    ExtractionFailed
        => /\ pc # "raised"
           /\ Returns("agent1") # {}
                => state.extracted_skills = JList(extract_skills_fallback(state.input))

(***************************************************************************)
(* Properties of the missing-critical-skills list                          *)
(***************************************************************************)
\* the list identify_missing_critical_skills was given: core followed by other
ScoredRequired ==
    ScoredProfile.core_technical_skills \o ScoredProfile.other_technical_skills

\* positions of the required skills the user lacks
Lacking == DOMAIN ScoredRequired \ Matched(ScoredSkills, ScoredRequired)

\* the n-th lacking position, counted from the front of the required list
NthLacking(n) == CHOOSE i \in Lacking : Cardinality({j \in Lacking : j <= i}) = n

\* C21: the missing-critical-skills list holds the first at most 5 required skills
\* (core list, then other list) the user lacks, each with gap_severity High when
\* required_level >= 3 and Medium otherwise and with learning_priority its
\* 1-based position in the required list, strictly increasing along the list;
\* the recommendations are the first at most 3 of them, with timeline
\* "2-4 weeks" when required_level >= 3 and "1-2 weeks" otherwise
C21_MissingCriticalSkills ==
    Scored =>
        LET missing == response.evaluation.missing_critical_skills
            recommendations == response.evaluation.recommendations
        IN  /\ Len(missing) = Min(5, Cardinality(Lacking))
            /\ \A n \in DOMAIN missing :
                LET i == NthLacking(n)
                IN  /\ missing[n].skill = ScoredRequired[i].skill
                    /\ missing[n].required_level = ScoredRequired[i].required_level
                    /\ missing[n].gap_severity =
                        (IF ScoredRequired[i].required_level >= 3 THEN "High" ELSE "Medium")
                    /\ missing[n].learning_priority = i
            /\ \A n \in DOMAIN missing : \A k \in DOMAIN missing :
                n < k => missing[n].learning_priority < missing[k].learning_priority
            /\ Len(recommendations) = Min(3, Len(missing))
            /\ \A n \in DOMAIN recommendations :
                /\ recommendations[n].skill = missing[n].skill
                /\ recommendations[n].timeline =
                    (IF missing[n].required_level >= 3 THEN "2-4 weeks" ELSE "1-2 weeks")

\* more than 5 required skills are lacking, the user holds one of the first
\* five, and the list that was cut carries both severities
C21_Witness ==
    /\ Scored
    /\ Cardinality(Lacking) > 5
    /\ \E i \in 1..5 : i \notin Lacking
    /\ Len(response.evaluation.missing_critical_skills) = 5
    /\ response.evaluation.missing_critical_skills[5].learning_priority > 5
    /\ \E n \in 1..5 : response.evaluation.missing_critical_skills[n].gap_severity = "High"
    /\ \E n \in 1..5 : response.evaluation.missing_critical_skills[n].gap_severity = "Medium"
    /\ Len(response.evaluation.recommendations) = 3

\* fewer than 3 skills are lacking: the recommendations cover all of them
C21_WitnessFew ==
    /\ Scored
    /\ Cardinality(Lacking) \in 1..2
    /\ Len(response.evaluation.recommendations) = Cardinality(Lacking)
    /\ \E n \in DOMAIN response.evaluation.recommendations :
        response.evaluation.recommendations[n].timeline = "1-2 weeks"

(***************************************************************************)
(* Requests to /generate-roadmap on a server holding one uploaded session  *)
(***************************************************************************)
\* the directory after cv.pdf with the text of ResumeText was uploaded at second 0
OneSessionUploaded ==
    dict_set(dict_set(<<>>, cv_pdf, File("pdf", <<JStr(ResumeText)>>)),
             session_file_of(upload_session_id(0)), File("txt", <<ResumeText>>))

\* session ids a client may send: none, an empty one, the id of the upload, an
\* id no request was given
SentSessionIds == <<JNull, JStr(<<>>), JStr(upload_session_id(0)), JStr(upload_session_id(7))>>

\* roles a client may send: none, a role of the curated table, a role no table has
SentRoles == {"", "DevOps Engineer", "Florist"}

RoadmapRequests ==
    {[endpoint |-> "/generate-roadmap", skills |-> u, role |-> r, session_id |-> SentSessionIds[i]] :
        u \in {<<>>, <<s_git, s_sql>>}, r \in SentRoles, i \in DOMAIN SentSessionIds}

InitRoadmapRequest ==
    /\ uploads = OneSessionUploaded
    /\ clock = 0
    /\ peer = "idle"
    /\ request \in RoadmapRequests
    /\ response = None
    /\ call = None
    /\ result = None
    /\ profiler = NewProfiler
    /\ JOB_ROLES_DATA = SampleRoles
    /\ COURSES_DATA = SampleCourses
    /\ NoRun

NextRoadmapRequest ==
    \/ generate_roadmap
    \/ run_pipeline_optimized
    \/ agent1_skill_extractor
    \/ agent2_gap_analyzer
    \/ agent3_roadmap_mentor_optimized
    \/ run_pipeline_optimized_return
    \/ generate_roadmap_respond

SpecRoadmapRequest == InitRoadmapRequest /\ [][NextRoadmapRequest]_vars

\* the role is in no table of the program: not a key of the curated roles and
\* not a row of role_profiles
UnrecognizedRole(role) ==
    /\ get_skills_for_role(role) = <<>>
    /\ get_role_profile(role) = EmptyProfile

\* the session id is missing, or no request created a session of that id
NoSuchSession(session_id) ==
    \/ no_session_id(session_id)
    \/ session_file_of(session_id.v) \notin DOMAIN uploads

InvalidRoadmapRequest ==
    \/ request.skills = <<>>
    \/ UnrecognizedRole(request.role)
    \/ NoSuchSession(request.session_id)

\* no stage of the pipeline has run and no success is answered
Rejected ==
    /\ call = None
    /\ pc = "idle"
    /\ log = <<>>
    /\ response # None => ~ response.success

\* C22 as claimed: a /generate-roadmap request with an empty skill set, an
\* unrecognized role, or a missing or unknown session id runs no pipeline stage
\* and gets no success result
C22_AsClaimed == InvalidRoadmapRequest => Rejected

\* what the handler does check: a request without a role, or with a missing or
\* unknown session id, runs no stage and is answered 400 or 404
C22_RoleAndSessionChecked ==
    (request.role = "" \/ NoSuchSession(request.session_id)) =>
        /\ Rejected
        /\ response # None => response.status \in {400, 404}

\* a request for a role no table has, with no skills, answered with a roadmap
C22_UncheckedAnswered ==
    /\ request.skills = <<>>
    /\ request.role = "Florist"
    /\ response # None
    /\ response.success
    /\ response.roadmap # <<>>

(***************************************************************************)
(* The session files over several requests                                 *)
(***************************************************************************)
InitSessions ==
    /\ NoUploads
    /\ request = None
    /\ response = None
    /\ call = None
    /\ result = None
    /\ profiler = NewProfiler
    /\ NoCuratedData
    /\ NoRun

NextSessions ==
    \/ receive_request
    \/ tick
    \/ upload_resume
    \/ create_manual_session
    \/ extract_skills
    \/ extract_skills_only
    \/ extract_skills_respond
    \/ generate_roadmap

SpecSessions == InitSessions /\ [][NextSessions]_vars

\* the session files of the directory
SessionFiles == {name \in DOMAIN uploads : str_endswith(name, dot_txt)}

\* the files of sessions that /upload-resume created
UploadSessionFiles == {session_file_of(upload_session_id(t)) : t \in 0..MaxClock} \cap DOMAIN uploads

UploadAnswered ==
    request # None /\ request.endpoint = "/upload-resume" /\ response # None

\* the reader that the file name selects can read the file
Readable(resume) ==
    \/ str_endswith(str_lower(resume.filename), dot_pdf) /\ resume.file.format = "pdf"
    \/ str_endswith(str_lower(resume.filename), dot_docx) /\ resume.file.format = "docx"

\* the request names a session that no request created
AsksForMissingSession ==
    /\ request # None
    /\ request.endpoint \in {"/extract-skills", "/generate-roadmap"}
    /\ ~ no_session_id(request.session_id)
    /\ session_file_of(request.session_id.v) \notin DOMAIN uploads

C23_States ==
    /\ \A name \in UploadSessionFiles : str_strip(read_text(uploads[name])) # <<>>
    /\ (UploadAnswered /\ request.resume # None /\ ~ Readable(request.resume)) =>
            /\ ~ response.success
            /\ response.status \in {400, 500}
    /\ AsksForMissingSession =>
            /\ call = None
            /\ response # None => response.status = 404 /\ ~ response.success

\* what a step that answers an upload does to the session files
C23_Steps ==
    (request # None /\ request.endpoint = "/upload-resume" /\ response = None /\ response' # None) =>
        IF response'.success
        THEN /\ session_file_of(response'.session_id) \in DOMAIN uploads'
             /\ str_strip(read_text(uploads'[session_file_of(response'.session_id)])) # <<>>
             /\ Readable(request.resume)
        ELSE /\ {name \in DOMAIN uploads' : str_endswith(name, dot_txt)} = SessionFiles
             /\ \A name \in SessionFiles : uploads'[name] = uploads[name]

\* C23: an upload whose file the reader cannot read is answered with an error
\* (the extraction returned '' and did not raise); an upload answered with an
\* error leaves the session files as they were; the session file of every upload
\* holds a text that is not blank; and /extract-skills or /generate-roadmap for
\* a session id that no request created is answered 404 without any call
C23_SessionsOnlyFromText == [](C23_States) /\ [][C23_Steps]_vars

\* a document was uploaded as cv.pdf, which the PDF reader cannot read: it is in
\* the directory, no session exists, and the skills of session_0 are not found
C23_Witness ==
    /\ cv_pdf \in DOMAIN uploads
    /\ uploads[cv_pdf] = DocxOfSkills
    /\ SessionFiles = {}
    /\ request # None
    /\ request.endpoint = "/extract-skills"
    /\ request.session_id = JStr(upload_session_id(0))
    /\ response # None
    /\ response.status = 404

(***************************************************************************)
(* Properties of the stages as steps of a run                              *)
(***************************************************************************)
\* the fields of the state a stage may write
OwnFields(stage) ==
    CASE stage = "agent1" -> {"extracted_skills"}
      [] stage = "agent2" -> {"missing_skills", "nice_to_have"}
      [] stage = "agent3" -> {"roadmap", "time_estimates", "performance_data"}

\* the state after the step has the fields it had, with their values, but for
\* the fields in own, and no new field outside own
WritesOnly(own) ==
    /\ DOMAIN state \ own \subseteq DOMAIN state'
    /\ DOMAIN state' \subseteq DOMAIN state \cup own
    /\ \A k \in DOMAIN state \ own : state'[k] = state[k]

C24_Step ==
    /\ pc \in {"agent1", "agent2", "agent3"} => WritesOnly(OwnFields(pc))
    /\ pc = "END" => WritesOnly({})
    /\ pc \in {"agent1", "agent2", "agent3", "END"} =>
        /\ state'.input = state.input
        /\ state'.target_role = state.target_role

\* C24: a step of the extraction stage changes no field of the state but
\* extracted_skills, a step of gap analysis none but missing_skills and
\* nice_to_have, a step of the roadmap stage none but roadmap, time_estimates
\* and performance_data; input and target_role keep their values through the run
C24_StagesWriteOwnFields == [][C24_Step]_vars

\* a run in which every stage has written its fields
C24_Witness ==
    /\ pc = "returned"
    /\ DOMAIN state = {"input", "target_role", "extracted_skills", "missing_skills",
                       "nice_to_have", "roadmap", "time_estimates", "performance_data"}
    /\ state.extracted_skills.v # <<>>
    /\ state.missing_skills.v # <<>>
    /\ state.roadmap.v # <<>>

\* where in the log a stage called the service
Invokes(stage) == {i \in DOMAIN log : log[i].stage = stage /\ log[i].event = "invoke"}

\* the call failed or timed out, or its reply did not parse
FailedCall(stage, reply) ==
    \/ reply.kind = "raises"
    \/ IF stage = "agent3" THEN parse_llm_response(reply.content).error # "none"
       ELSE json_loads(strip_code_fences(reply.content)).error # "none"

\* C25: in a run each stage calls the service at most once; after a call that
\* raised, timed out or gave a reply that does not parse, the stage makes no
\* other call: it announces its fallback, or the run has ended with the
\* exception of that call
C25_OneCallPerStage ==
    \A n \in DOMAIN Stages :
        /\ Cardinality(Invokes(Stages[n])) <= 1
        /\ \A i \in Invokes(Stages[n]) :
            FailedCall(Stages[n], log[i].reply) =>
                \/ i = Len(log) /\ pc = "raised"
                \/ i < Len(log) /\ log[i + 1] = Event(Stages[n], "fallback")

\* a run that returned although the extraction reply did not parse and the
\* roadmap call raised: both stages fell back after their one call
C25_Witness ==
    /\ pc = "returned"
    /\ \A n \in DOMAIN Stages : Cardinality(Invokes(Stages[n])) = 1
    /\ \E i \in Invokes("agent1") :
        /\ log[i].reply.kind # "raises"
        /\ FailedCall("agent1", log[i].reply)
    /\ \E i \in Invokes("agent3") : log[i].reply.kind = "raises"

(***************************************************************************)
(* Skill extractions and pipeline runs, one after another                  *)
(***************************************************************************)
InitRuns ==
    /\ NoUploads
    /\ request = None
    /\ response = None
    /\ call \in RunCalls
    /\ result = None
    /\ profiler = NewProfiler
    /\ JOB_ROLES_DATA = SampleRoles
    /\ COURSES_DATA = SampleCourses
    /\ NoRun

NextRuns ==
    \/ run_pipeline_optimized
    \/ agent1_skill_extractor
    \/ agent2_gap_analyzer
    \/ agent3_roadmap_mentor_optimized
    \/ run_pipeline_optimized_return
    \/ extract_skills_only
    \/ next_call

SpecRuns == InitRuns /\ [][NextRuns]_vars

IsZero(ratio) == ratio.num = 0

C26_States ==
    /\ profiler.cache = {}
    /\ profiler.cache_hits = 0
    /\ profiler.cache_misses = 0
    /\ (state # None /\ "performance_data" \in DOMAIN state) =>
            IsZero(state.performance_data.cache_stats.hit_ratio)
    /\ result # None => IsZero(result.performance_summary.cache_stats.hit_ratio)

\* a call starts on a new profiler and a state of its arguments alone
C26_Steps ==
    (call # None /\ pc = "idle" /\ result = None /\ call' = call) =>
        /\ call.fn = "run_pipeline_optimized" =>
            /\ profiler' = start_timer(NewProfiler, "pipeline_total")
            /\ state' = [input |-> call.input_text, target_role |-> call.target_role]
            /\ log' = <<>>
        /\ call.fn = "extract_skills_only" =>
            /\ \A t \in profiler'.timings : t.name = "skill_extraction_only"
            /\ result'.extracted_skills \in
                {o.state.extracted_skills :
                    o \in {u \in {agent1_outcome([input |-> call.input_text], ExtractionReplies[i]) :
                                    i \in DOMAIN ExtractionReplies} : ~ u.raises}}
                \cup {JList(extract_skills_fallback(call.input_text))}

\* C26: after any sequence of skill extractions and pipeline runs the cache of
\* the profiler is empty and its hit and miss counters are 0, and every report
\* carries a hit ratio of 0; every call starts on a new profiler and a state
\* made of its arguments, whatever the calls before have left
C26_CacheUnused == [](C26_States) /\ [][C26_Steps]_vars

\* a pipeline run is about to start after a run that has left its timers in
\* the module-level profiler
C26_Witness ==
    /\ call # None
    /\ call.fn = "run_pipeline_optimized"
    /\ pc = "idle"
    /\ \E t \in profiler.timings : t.name = "roadmap_generation_total" /\ t.state = "finished"

(***************************************************************************)
(* The roadmap handed to calculate_time_estimates                          *)
(***************************************************************************)
\* C27 as stated: calculate_time_estimates leaves the roadmap it is given as
\* it was: after the call every phase and every step of the input has the
\* fields and values it had before.  Line 367 copies the phase dict only, so
\* the steps of the copy are the caller's step dicts, and lines 373-376 set
\* est_hours on them.
C27_AsClaimed == [][call_calculate_time_estimates => call'.roadmap = call.roadmap]_vars

\* what the call does keep: the phases of the input keep their own keys (the
\* totals and time frames go to the copies), and a step changes by gaining
\* est_hours only
C27_PhasesKeepKeys ==
    [][call_calculate_time_estimates =>
         /\ Len(call'.roadmap) = Len(call.roadmap)
         /\ \A i \in DOMAIN call.roadmap :
              /\ call'.roadmap[i].type = call.roadmap[i].type
              /\ call.roadmap[i].type = "dict" =>
                   /\ DOMAIN call'.roadmap[i].v = DOMAIN call.roadmap[i].v
                   /\ \A k \in DOMAIN call.roadmap[i].v \ {"skills"} :
                        call'.roadmap[i].v[k] = call.roadmap[i].v[k]
                   /\ "skills" \in DOMAIN call.roadmap[i].v =>
                        \A j \in DOMAIN call.roadmap[i].v.skills :
                           \/ call'.roadmap[i].v.skills[j] = call.roadmap[i].v.skills[j]
                           \/ /\ call.roadmap[i].v.skills[j].type = "dict"
                              /\ "est_hours" \notin DOMAIN call.roadmap[i].v.skills[j].v
                              /\ DOMAIN call'.roadmap[i].v.skills[j].v =
                                    DOMAIN call.roadmap[i].v.skills[j].v \cup {"est_hours"}]_vars

\* the input of a finished call holds a step that names hours the caller
\* never gave: StepChoices gives docker without est_hours
C27_InputBackfilled ==
    /\ Estimated
    /\ \E i \in DOMAIN call.roadmap :
         /\ call.roadmap[i].type = "dict"
         /\ "skills" \in DOMAIN call.roadmap[i].v
         /\ \E j \in DOMAIN call.roadmap[i].v.skills :
              /\ call.roadmap[i].v.skills[j].type = "dict"
              /\ call.roadmap[i].v.skills[j].v.skill = s_docker
              /\ "est_hours" \in DOMAIN call.roadmap[i].v.skills[j].v

(***************************************************************************)
(* The ids of sessions                                                     *)
(***************************************************************************)
\* a step that answers a session-creating request with success
CreatesSession ==
    /\ request # None
    /\ request.endpoint \in {"/upload-resume", "/create-manual-session"}
    /\ response = None
    /\ response' # None
    /\ response'.success

\* C28 as stated: two successful session-creating requests get distinct session
\* ids, also within one second, so the request that creates a session never
\* writes over the text of a session that exists.  The id is the prefix and
\* int(time.time()) (lines 481, 529): a second request of the same endpoint in
\* the same second gets the id of the first and writes its file (lines 484, 532).
C28_AsClaimed ==
    [][CreatesSession => session_file_of(response'.session_id) \notin DOMAIN uploads]_vars

\* what the ids do tell apart: the endpoint and the second
C28_IdsOfSeconds ==
    /\ [](\A t1, t2 \in 0..MaxClock :
            /\ upload_session_id(t1) = upload_session_id(t2) => t1 = t2
            /\ manual_session_id(t1) = manual_session_id(t2) => t1 = t2
            /\ upload_session_id(t1) # manual_session_id(t2))
    /\ [][CreatesSession =>
            /\ request.endpoint = "/upload-resume" =>
                    response'.session_id = upload_session_id(clock)
            /\ request.endpoint = "/create-manual-session" =>
                    response'.session_id = manual_session_id(clock)]_vars

\* the session of the first second holds the skills list of the .docx upload,
\* and /extract-skills for that id is working on this text: the id is also the
\* one that the upload of the resume cv.pdf was given in the same second, when
\* cv.pdf is in the directory
C28_ReadsAnothersText ==
    /\ cv_pdf \in DOMAIN uploads
    /\ uploads[cv_pdf] = PdfOfResume
    /\ cv_DOCX \in DOMAIN uploads
    /\ clock = 0
    /\ request # None
    /\ request.endpoint = "/extract-skills"
    /\ request.session_id = JStr(upload_session_id(0))
    /\ call # None
    /\ call.input_text = extract_text_from_docx(DocxOfSkills)
    /\ call.input_text # extract_text_from_pdf(PdfOfResume)

(***************************************************************************)
(* The performance report of a run beside another request                  *)
(***************************************************************************)
InitConcurrent ==
    /\ NoUploads
    /\ request = None
    /\ response = None
    /\ result = None
    /\ profiler = NewProfiler
    /\ NoCuratedData
    /\ call = [fn |-> "run_pipeline_optimized", input_text |-> ResumeText,
               target_role |-> "DevOps Engineer"]
    /\ NoRun

NextConcurrent ==
    \/ run_pipeline_optimized
    \/ agent1_skill_extractor
    \/ agent2_gap_analyzer
    \/ agent3_roadmap_mentor_optimized
    \/ run_pipeline_optimized_return
    \/ peer_extract_skills_only
    \/ peer_extract_skills_only_return

SpecConcurrent == InitConcurrent /\ [][NextConcurrent]_vars

\* the timers that a pipeline run starts: line 758 and the stage of the roadmap
PipelineTimers ==
    {"pipeline_total", "roadmap_generation_total", "input_trimming", "course_retrieval",
     "llm_prompt_preparation", "llm_call", "post_processing"}

PipelineReturned ==
    call # None /\ call.fn = "run_pipeline_optimized" /\ pc = "returned"

\* C29 as stated: the report returned for a pipeline run names only timers that
\* the run started, also when another request resets the profiler meanwhile.
\* The profiler is one module-level name: the run reports whatever object the
\* name denotes at line 792.
C29_AsClaimed ==
    PipelineReturned => result.performance_summary.step_timings \subseteq PipelineTimers

\* the same for the report that the stage of the roadmap puts into the state
C29_StageReportAsClaimed ==
    (pc \in {"END", "returned"} /\ "performance_data" \in DOMAIN state) =>
        state.performance_data.step_timings \subseteq PipelineTimers

\* a run that no other request disturbs reports its own timers, and
\* pipeline_total among them
C29_AloneOwnTimers ==
    PipelineReturned =>
        /\ result.performance_summary.step_timings \subseteq PipelineTimers
        /\ "pipeline_total" \in result.performance_summary.step_timings

\* the report of a run holds the timer of another request's extraction and
\* lacks the run's own pipeline_total
C29_ForeignTimerReported ==
    /\ PipelineReturned
    /\ "skill_extraction_only" \in result.performance_summary.step_timings
    /\ "pipeline_total" \notin result.performance_summary.step_timings

(***************************************************************************)
(* The hours of a /generate-roadmap response                               *)
(***************************************************************************)
RoadmapAnswered ==
    /\ request # None
    /\ request.endpoint = "/generate-roadmap"
    /\ response # None
    /\ response.success

\* the sum of the est_hours of the steps a phase of the response lists
ListedHours(skills) ==
    LET F[n \in 0..Len(skills)] == IF n = 0 THEN 0 ELSE F[n - 1] + skills[n].est_hours
    IN  F[Len(skills)]

\* the sum of the phase_total_hours of the phases of the response
ListedPhaseTotals(roadmap) ==
    LET F[n \in 0..Len(roadmap)] == IF n = 0 THEN 0 ELSE F[n - 1] + roadmap[n].phase_total_hours
    IN  F[Len(roadmap)]

\* C30 as stated: in a successful /generate-roadmap response the
\* phase_total_hours of each phase is the sum of the est_hours of the steps the
\* response lists for it, and overall_total_hours is the sum of the phases'
\* totals.  The handler lists a bare-string step with est_hours 10 (line 1278),
\* and calculate_time_estimates counted no hours for it (line 373).
C30_AsClaimed ==
    RoadmapAnswered =>
        /\ \A i \in DOMAIN response.roadmap :
              response.roadmap[i].phase_total_hours = ListedHours(response.roadmap[i].skills)
        /\ response.time_estimates.overall_total_hours = ListedPhaseTotals(response.roadmap)

\* what the response does keep: the overall total is the sum of the phase
\* totals, and the total of a phase that has the key 'skills' and whose
\* generated steps are all objects is the sum of the hours listed
C30_SumsOfObjectSteps ==
    RoadmapAnswered =>
        /\ response.time_estimates.overall_total_hours = ListedPhaseTotals(response.roadmap)
        /\ \A i \in DOMAIN response.roadmap :
              (/\ "skills" \in DOMAIN result.roadmap.v[i]
               /\ \A j \in DOMAIN result.roadmap.v[i].skills :
                    result.roadmap.v[i].skills[j].type = "dict") =>
                 response.roadmap[i].phase_total_hours =
                    ListedHours(response.roadmap[i].skills)

\* the response lists git, a bare string of the generated roadmap, with 10
\* hours in a phase of three steps whose total is the 19 hours of the other two
C30_StringStepListed ==
    /\ RoadmapAnswered
    /\ \E i \in DOMAIN response.roadmap :
         /\ Len(response.roadmap[i].skills) = 3
         /\ response.roadmap[i].skills[3] = [skill |-> s_git, est_hours |-> listed_string_hours]
         /\ response.roadmap[i].phase_total_hours = 19
         /\ ListedHours(response.roadmap[i].skills) = 29

====
